---- MODULE Spec2Model ----
(***************************************************************************)
(* Verification model of the WorthTheWatch review pipeline:                *)
(*   - synthesize_review (services/llm.py): provider failover              *)
(*   - generate_review_for_movie (services/pipeline.py): routes, Verdict   *)
(*     Policy Engine, persistence                                          *)
(*   - get_or_create_movie (services/pipeline.py): first-insert race       *)
(* Scores are kept in tenths (7.5 is 75).  Python None is the integer -1   *)
(* for optional numbers; lists of points are kept by their length.         *)
(***************************************************************************)
EXTENDS Integers, Sequences, FiniteSets, TLC

None == -1

\* Python truthiness of an optional number: `x and ...`
Truthy(x) == x # None /\ x # 0

-----------------------------------------------------------------------------
(* Bounds of the model *)

MaxPoints == 1          \* praise_points / criticism_points hold 0..MaxPoints entries
MaxArticles == 3        \* articles read in one run: 1..MaxArticles
MaxOthers == 3          \* non-Reddit URLs of one read_urls batch: 0..MaxOthers
MaxUrls == 4            \* Reddit URLs in one read_urls batch: 0..MaxUrls
MaxPairUrls == 3        \* Reddit URLs of each of two concurrent batches: 1..MaxPairUrls
MaxSearches == 3        \* searches of one parallel fan-out on the Serper instance
MaxOver == 1            \* links of a category in one result list: 0..(its quota + MaxOver)
MaxSelected == 3        \* selected_urls of one run: 1..MaxSelected
MaxRetries == 3         \* max_retries of with_retry: 0..MaxRetries
MaxResults == 4         \* search results held by the agent: 0..MaxResults
MaxAttempts == 4        \* cap of the agent's search_attempts counter
MaxText == 4            \* characters of an argument of sanitize_text: 0..MaxText
MaxConcurrent == 2      \* max_concurrent of read_urls
MaxRead == 9            \* articles_read given to calculate_confidence: 0..MaxRead
MaxReddit == 4          \* Reddit URLs among selected_urls: 0..MaxReddit
MaxTitles == 3          \* titles with a Review that one smart_refresh sweep sees
MaxRefresh == 2         \* max_refresh of smart_refresh: 1..MaxRefresh

-----------------------------------------------------------------------------
(* LLMReviewOutput, schemas.py *)

Verdicts == {"WORTH IT", "NOT WORTH IT", "MIXED BAG"}
Tiers == {"HIGH", "MEDIUM", "LOW"}

\* sampled sentiment percentages: one value per interval the rules cut
\* (45, 60 and 80 are the thresholds of the policy rules)
PctVals == {0, 44, 45, 61, 80}

\* fields the schema declares; reading any other attribute of an
\* LLMReviewOutput raises AttributeError (pydantic ignores extra keys on
\* construction and does not store them)
LLMReviewOutputFields ==
    {"review_text", "verdict", "praise_points", "criticism_points", "vibe",
     "confidence", "tags", "best_quote", "quote_source",
     "positive_pct", "negative_pct", "mixed_pct"}

HasAttr(f) == f \in LLMReviewOutputFields

\* every value that passes validation of LLMReviewOutput
LLMReviewOutput ==
    [verdict : Verdicts,
     praise_points : 0..MaxPoints,
     criticism_points : 0..MaxPoints,
     confidence : Tiers,
     positive_pct : PctVals \cup {None},
     negative_pct : {0, None}]

-----------------------------------------------------------------------------
(* synthesize_review, llm.py *)

\* what one _call_llm can do: raise (timeout, provider error), or return
\* message.content, which is None, text that is not JSON, JSON that the
\* schema rejects, or JSON that validates
NoContent == [kind |-> "none"]
Contents ==
    {NoContent, [kind |-> "nonjson"], [kind |-> "badschema"]}
    \cup {[kind |-> "json", data |-> d] : d \in LLMReviewOutput}
CallOutcomes == {[kind |-> "exception"]} \cup Contents

\* llm.py 363-373, the static result when every provider call has failed
DegradedOutput ==
    [verdict |-> "MIXED BAG", praise_points |-> 0, criticism_points |-> 0,
     confidence |-> "LOW", positive_pct |-> None, negative_pct |-> None]

\* llm.py 410-420, the static result when the content does not parse
ParseFallbackOutput ==
    [verdict |-> "MIXED BAG", praise_points |-> 0, criticism_points |-> 0,
     confidence |-> "LOW", positive_pct |-> None, negative_pct |-> None]

\* the parse step without the except clause for schema violations
ParseContentRaising(c) ==
    IF c.kind = "json" THEN [raised |-> FALSE, out |-> c.data]
    ELSE IF c.kind = "badschema" THEN [raised |-> TRUE, out |-> ParseFallbackOutput]
    ELSE [raised |-> FALSE, out |-> ParseFallbackOutput]

\* llm.py 377-420: json.loads and the LLMReviewOutput constructor inside
\* try/except;
\* the result says whether an exception leaves the function
ParseContent(c) ==
    IF c.kind = "json" THEN [raised |-> FALSE, out |-> c.data]
    ELSE [raised |-> FALSE, out |-> ParseFallbackOutput]

VARIABLES
    fallback_client,    \* llm.py 314: TRUE iff a second provider is configured
    s_pc,               \* position inside synthesize_review
    content,            \* llm.py 302: content
    calls,              \* the _call_llm calls made so far, in order
    s_result            \* what synthesize_review returned / whether it raised

synthVars == <<fallback_client, s_pc, content, calls, s_result>>

NoResult == [raised |-> FALSE, out |-> DegradedOutput, returned |-> FALSE]

Call(provider, prompt, o) ==
    [provider |-> provider, prompt |-> prompt, outcome |-> o.kind]

SynthInit ==
    /\ fallback_client \in BOOLEAN
    /\ s_pc = "tier1"
    /\ content = NoContent
    /\ calls = <<>>
    /\ s_result = NoResult

\* llm.py 306-311: the primary call
CallPrimary ==
    /\ s_pc = "tier1"
    /\ \E o \in CallOutcomes :
        /\ calls' = Append(calls, Call("primary", "user_prompt", o))
        /\ IF o.kind = "exception"
           THEN /\ content' = NoContent
                /\ s_pc' = IF fallback_client THEN "failover" ELSE "tier2"
           ELSE /\ content' = o
                /\ s_pc' = "tier2"
    /\ UNCHANGED <<fallback_client, s_result>>

\* llm.py 317-324: the secondary call, same prompt
CallSecondary ==
    /\ s_pc = "failover"
    /\ \E o \in CallOutcomes :
        /\ calls' = Append(calls, Call("secondary", "user_prompt", o))
        /\ content' = IF o.kind = "exception" THEN NoContent ELSE o
    /\ s_pc' = "tier2"
    /\ UNCHANGED <<fallback_client, s_result>>

\* variant: the knowledge-only call is made whatever content holds
NeedsKnowledgeAlways(c) == TRUE

\* llm.py 331: `if content is None`
NeedsKnowledge(c) == c = NoContent

\* llm.py 331-373: knowledge-only call when content is None
CallKnowledge ==
    /\ s_pc = "tier2"
    /\ IF ~NeedsKnowledge(content)
       THEN /\ s_pc' = "parse"
            /\ UNCHANGED <<content, calls, s_result>>
       ELSE \E o \in CallOutcomes :
            /\ calls' = Append(calls, Call("knowledge", "knowledge_prompt", o))
            /\ IF o.kind = "exception"
               THEN /\ s_result' = [raised |-> FALSE, out |-> DegradedOutput,
                                    returned |-> TRUE]
                    /\ s_pc' = "returned"
                    /\ UNCHANGED content
               ELSE /\ content' = o
                    /\ s_pc' = "parse"
                    /\ UNCHANGED s_result
    /\ UNCHANGED fallback_client

\* llm.py 377-420
ParseAndReturn ==
    /\ s_pc = "parse"
    /\ LET r == ParseContent(content)
       IN s_result' = [raised |-> r.raised, out |-> r.out, returned |-> ~r.raised]
    /\ s_pc' = "returned"
    /\ UNCHANGED <<fallback_client, content, calls>>

SynthNext == CallPrimary \/ CallSecondary \/ CallKnowledge \/ ParseAndReturn

\* the result of a whole synthesize_review call on the three call outcomes
\* (o2 is read only when the primary call raised and a fallback client
\* exists, o3 only when no content was obtained)
SynthesizeReview(o1, o2, o3, fb) ==
    LET c == IF o1.kind # "exception" THEN o1
             ELSE IF fb /\ o2.kind # "exception" THEN o2
             ELSE NoContent
    IN IF c # NoContent THEN ParseContent(c).out
       ELSE IF o3.kind = "exception" THEN DegradedOutput
       ELSE ParseContent(o3).out

-----------------------------------------------------------------------------
(* calculate_confidence and the TMDB override, pipeline.py *)

\* variant: a title older than a year adds 5
CalculateConfidenceScoreOldDrop(articles_read, reddit_count, chars, days_old) ==
    (IF articles_read >= 8 THEN 25 ELSE IF articles_read >= 5 THEN 15
     ELSE IF articles_read >= 3 THEN 8 ELSE 0)
  + (IF reddit_count >= 3 THEN 30 ELSE IF reddit_count >= 1 THEN 15 ELSE 0)
  + (IF chars >= 15000 THEN 25 ELSE IF chars >= 8000 THEN 15
     ELSE IF chars >= 3000 THEN 8 ELSE 0)
  + (IF days_old = None THEN 10
     ELSE IF days_old > 365 THEN 5 ELSE IF days_old > 90 THEN 15
     ELSE IF days_old > 30 THEN 8 ELSE 0)

\* pipeline.py 158-215
CalculateConfidenceScore(articles_read, reddit_count, chars, days_old) ==
    (IF articles_read >= 8 THEN 25 ELSE IF articles_read >= 5 THEN 15
     ELSE IF articles_read >= 3 THEN 8 ELSE 0)
  + (IF reddit_count >= 3 THEN 30 ELSE IF reddit_count >= 1 THEN 15 ELSE 0)
  + (IF chars >= 15000 THEN 25 ELSE IF chars >= 8000 THEN 15
     ELSE IF chars >= 3000 THEN 8 ELSE 0)
  + (IF days_old = None THEN 10
     ELSE IF days_old > 365 THEN 20 ELSE IF days_old > 90 THEN 15
     ELSE IF days_old > 30 THEN 8 ELSE 0)

\* variant: HIGH only above 70
TierOfAbove70(score) == IF score > 70 THEN "HIGH" ELSE IF score >= 40 THEN "MEDIUM" ELSE "LOW"

\* pipeline.py 217-223
TierOf(score) == IF score >= 70 THEN "HIGH" ELSE IF score >= 40 THEN "MEDIUM" ELSE "LOW"

\* pipeline.py 672-695: tier after the vote-count override
ConfidenceOverride(tier, tmdb_votes) ==
    LET t1 == IF tier = "LOW" /\ tmdb_votes > 300 THEN "MEDIUM" ELSE tier
    IN IF t1 \in {"LOW", "MEDIUM"} /\ tmdb_votes > 1000 THEN "HIGH" ELSE t1

\* `x or 0`
OrZero(x) == IF Truthy(x) THEN x ELSE 0

-----------------------------------------------------------------------------
(* Verdict Policy Engine, pipeline.py 715-827 *)

\* pipeline.py 723-724
OverrideScore(imdb_score, m) ==
    IF Truthy(imdb_score) THEN imdb_score ELSE m.tmdb_vote_average
OverrideVotes(imdb_votes, m) ==
    IF Truthy(imdb_votes) THEN imdb_votes ELSE OrZero(m.tmdb_vote_count)

\* override_score / override_votes are assigned only inside the block at
\* pipeline.py 716; outside it they are unbound names
OverrideBound(out) == out.positive_pct # None /\ out.negative_pct # None

SetVerdict(out, v) == [out EXCEPT !.verdict = v]

\* pipeline.py 729-755
HighScorePrivilege(out, score, votes) ==
    IF Truthy(score) /\ score > 75 /\ Truthy(votes) /\ votes > 500
       /\ out.verdict # "WORTH IT"
    THEN IF out.criticism_points > out.praise_points THEN out
         ELSE IF Truthy(out.positive_pct) /\ out.positive_pct < 45 THEN out
         ELSE SetVerdict(out, "WORTH IT")
    ELSE out

\* pipeline.py 757-760
SoftenNegative(out) ==
    IF out.verdict = "NOT WORTH IT" /\ out.positive_pct > 60
    THEN SetVerdict(out, "MIXED BAG") ELSE out

\* rule 3 letting WORTH IT stand from 45% positive on
LowScoreSafetyNetFrom45(out, score, votes) ==
    IF Truthy(score) /\ score < 60 /\ Truthy(votes) /\ votes > 100
       /\ out.verdict = "WORTH IT"
    THEN IF Truthy(out.positive_pct) /\ out.positive_pct >= 45 THEN out
         ELSE SetVerdict(out, "MIXED BAG")
    ELSE out

\* pipeline.py 768-788
LowScoreSafetyNet(out, score, votes) ==
    IF Truthy(score) /\ score < 60 /\ Truthy(votes) /\ votes > 100
       /\ out.verdict = "WORTH IT"
    THEN IF Truthy(out.positive_pct) /\ out.positive_pct >= 80 THEN out
         ELSE SetVerdict(out, "MIXED BAG")
    ELSE out

\* rule 4 writing a fourth verdict
HardLowScoreOverrideSkipIt(out, score, votes) ==
    IF Truthy(score) /\ score < 50 /\ Truthy(votes) /\ votes > 200
       /\ out.verdict \in {"WORTH IT", "MIXED BAG"}
    THEN SetVerdict(out, "SKIP IT") ELSE out

\* pipeline.py 790-801
HardLowScoreOverride(out, score, votes) ==
    IF Truthy(score) /\ score < 50 /\ Truthy(votes) /\ votes > 200
       /\ out.verdict \in {"WORTH IT", "MIXED BAG"}
    THEN SetVerdict(out, "NOT WORTH IT") ELSE out

\* pipeline.py 803-815
MidScoreSafetyNet(out, score, votes) ==
    IF Truthy(score) /\ 50 <= score /\ score < 60 /\ Truthy(votes) /\ votes > 200
       /\ out.verdict = "WORTH IT"
       /\ (~Truthy(out.positive_pct) \/ out.positive_pct < 80)
    THEN SetVerdict(out, "MIXED BAG") ELSE out

\* rule 6 demoting only below 2 articles
LowConfidenceDemoteBelow2(out, stats) ==
    IF stats.confidence_tier = "LOW" /\ out.verdict = "WORTH IT"
       /\ stats.articles_read < 2
    THEN SetVerdict(out, "MIXED BAG") ELSE out

\* pipeline.py 817-824
LowConfidenceDemote(out, stats) ==
    IF stats.confidence_tier = "LOW" /\ out.verdict = "WORTH IT"
       /\ stats.articles_read < 3
    THEN SetVerdict(out, "MIXED BAG") ELSE out

\* pipeline.py 826-827
OverwriteConfidence(out, stats) == [out EXCEPT !.confidence = stats.confidence_tier]

-----------------------------------------------------------------------------
(* generate_review_for_movie, pipeline.py 240-944, and its caller *)

Movie(avg, count) == [tmdb_vote_average |-> avg, tmdb_vote_count |-> count]

\* sampled titles: (average in tenths, vote count)
Movies ==
    {Movie(86, 12000), Movie(42, 5000), Movie(55, 250), Movie(55, 150),
     Movie(0, 0), Movie(None, None)}

Omdb(score, votes) == [imdb_score |-> score, imdb_votes |-> votes]
NoOmdb == Omdb(None, None)

\* sampled answers of the trusted-rating lookup (NoOmdb: no match or failure)
OmdbAnswers == {NoOmdb, Omdb(80, 600), Omdb(42, 900), Omdb(55, None)}

\* a Review row, models.py 42-90 (the columns the properties read)
Row(v, conf, pos, neg, n) ==
    [verdict |-> v, confidence |-> conf, positive_pct |-> pos,
     negative_pct |-> neg, sources_count |-> n]

\* the row of a title reviewed before this process started
StoredRow == Row("MIXED BAG", "MEDIUM", 45, 0, 3)

NoRow == [verdict |-> "none"]
Absent == [kind |-> "absent"]
Progress(msg, pct) == [kind |-> "dict", message |-> msg, percent |-> pct]

VARIABLES
    USE_LANGGRAPH,      \* config.py 65
    providers,          \* search branches whose provider answers with results
    movie,              \* the Movie row the run is for
    db_reviews,         \* committed rows of table reviews for the title
    session_review,     \* the Review object of the title held by the run's session
    session_new,        \* Review objects added to the session, not yet flushed
    pc,                 \* position of the run
    imdb,               \* imdb_score / imdb_votes, pipeline.py 457-461
    confidence_stats,   \* pipeline.py 664-695
    llm_output,         \* the LLMReviewOutput in hand
    session_dirty,      \* columns of session_review this session has assigned
    outcome,            \* how generate_review_for_movie ended
    job_progress        \* job_progress[tmdb_id], pipeline.py 238

runVars == <<USE_LANGGRAPH, providers, movie, db_reviews, session_review, session_new, pc,
             imdb, confidence_stats, llm_output, session_dirty, outcome,
             job_progress>>

VARIABLES
    db_movies,          \* committed rows of table movies with the tmdb_id
    gm_pending,         \* per session: an inserted row its transaction has not ended
    gm_pc,              \* per session: position inside get_or_create_movie
    gm_movie,           \* per session: the Movie the call returned
    gm_error,           \* per session: the exception the call raised
    gm_conflict,        \* per session: the flush failed on the unique index
    gm_end              \* per session: how the caller ended the transaction

movieVars == <<db_movies, gm_pending, gm_pc, gm_movie, gm_error, gm_conflict, gm_end>>

NoStats == [confidence_tier |-> "MEDIUM", articles_read |-> 0]

\* the values synthesize_review returns to its caller, over all call outcomes
SynthReturns(fb) ==
    LET exc == [kind |-> "exception"]
    IN {SynthesizeReview(o1, exc, exc, fb) : o1 \in Contents \ {NoContent}}
       \cup {SynthesizeReview(exc, o2, exc, fb) : o2 \in Contents \ {NoContent}}
       \cup {SynthesizeReview(o1, exc, o3, fb) :
                o1 \in {exc, NoContent}, o3 \in CallOutcomes}

\* sampled retrieval statistics of one run
RedditCounts == {0, 1, 3}
CharVolumes == {100, 3000, 8000, 15000}
DaysOld == {None, 10, 31, 91, 366}

\* select(Review).where(Review.movie_id == movie.id): the object the session
\* already holds, else the committed row, else None
Existing == IF session_review # NoRow THEN session_review
            ELSE IF Len(db_reviews) > 0 THEN db_reviews[1] ELSE NoRow

\* the assignments made before llm_output.hook is read
\* (pipeline.py 331-339 and 846-856)
AssignBeforeHook(row, out) ==
    [row EXCEPT !.verdict = out.verdict,
                !.confidence = out.confidence]
ColumnsBeforeHook == {"verdict", "confidence"}

\* the branches of the fan-out that add to all_results, pipeline.py 421-425
SearchBranches == {"critics", "reddit", "forums", "guardian", "nyt"}

\* sampled provider states: none answers, one answers, all answer
ProviderStates == {{}, {"reddit"}, SearchBranches}

RunInit ==
    /\ USE_LANGGRAPH \in BOOLEAN
    /\ providers \in ProviderStates
    /\ movie \in Movies
    /\ db_reviews \in {<<>>, <<StoredRow>>}
    /\ session_review = NoRow
    /\ session_new = <<>>
    /\ session_dirty = {}
    /\ pc = "idle"
    /\ imdb = NoOmdb
    /\ confidence_stats = NoStats
    /\ llm_output = DegradedOutput
    /\ outcome = "none"
    /\ job_progress = Absent
    \* the values synthesize_review returns do not depend on fallback_client
    /\ fallback_client = TRUE
    /\ s_pc = "idle"
    /\ content = NoContent
    /\ calls = <<>>
    /\ s_result = NoResult

\* the caller opens a session and calls generate_review_for_movie;
\* pipeline.py 254-314 / 399: up to the first awaited call of the route
StartRun ==
    /\ pc \in {"idle", "finished"}
    /\ session_review' = NoRow
    /\ session_new' = <<>>
    /\ session_dirty' = {}
    /\ imdb' = NoOmdb
    /\ confidence_stats' = NoStats
    /\ llm_output' = DegradedOutput
    /\ outcome' = "none"
    /\ IF USE_LANGGRAPH
       THEN /\ job_progress' = Progress("Running AI Agent...", 10)
            /\ pc' = "agent"
       ELSE /\ job_progress' = Progress("Searching for reviews...", 10)
            /\ pc' = "search"
    /\ UNCHANGED <<USE_LANGGRAPH, providers, movie, db_reviews>>

\* llm_output.hook, .critic_sentiment and .reddit_sentiment are read by every
\* path that builds or updates a Review (pipeline.py 340-342, 363-365,
\* 859-866, 891-895, 1003-1006)
VoiceAttrs == HasAttr("hook") /\ HasAttr("critic_sentiment") /\ HasAttr("reddit_sentiment")

\* all assignments of an update in place
FullUpdate(row, out, n) ==
    [AssignBeforeHook(row, out) EXCEPT !.positive_pct = out.positive_pct,
                                       !.negative_pct = out.negative_pct,
                                       !.sources_count = n]
NewRow(out, conf, n) ==
    Row(out.verdict, conf, out.positive_pct, out.negative_pct, n)
AllColumns == ColumnsBeforeHook \cup {"positive_pct", "negative_pct", "sources_count"}

\* locals of generate_review_for_movie that no later statement reads
DropLocals ==
    /\ imdb' = NoOmdb
    /\ confidence_stats' = NoStats
    /\ llm_output' = DegradedOutput

\* pipeline.py 399: entry of the procedural route
EnterProcedural ==
    /\ job_progress' = Progress("Searching for reviews...", 10)
    /\ pc' = "search"
    /\ outcome' = outcome

\* pipeline.py 316-324: run_agent_pipeline returns or raises
AgentReturn ==
    /\ pc = "agent"
    /\ \/ \* it raises or reports an error: procedural route
          /\ EnterProcedural
          /\ UNCHANGED <<confidence_stats, llm_output, imdb>>
       \/ \E out \in SynthReturns(fallback_client), a \in 1..MaxArticles,
             r \in RedditCounts, c \in CharVolumes :
          /\ llm_output' = out
          \* agent.py 318-366: omdb_scores of the agent, taken without the vote check
          /\ imdb' \in OmdbAnswers
          \* agent.py 206-227: the agent's own tier
          /\ confidence_stats' =
                [confidence_tier |-> TierOf(CalculateConfidenceScore(a, r, c, None)),
                 articles_read |-> a]
          /\ pc' = "agent_persist"
          /\ UNCHANGED <<job_progress, outcome>>
    /\ UNCHANGED <<USE_LANGGRAPH, providers, movie, db_reviews, session_review, session_new,
                   session_dirty>>

\* pipeline.py 326-396: the LangGraph route stores its review
AgentPersist ==
    /\ pc = "agent_persist"
    /\ IF Existing # NoRow
       THEN IF VoiceAttrs
            THEN /\ session_review' =
                       FullUpdate(Existing, llm_output, confidence_stats.articles_read)
                 /\ session_dirty' = AllColumns
                 /\ session_new' = session_new
                 /\ job_progress' = Absent
                 /\ outcome' = "returned"
                 /\ pc' = "caller"
            ELSE \* AttributeError at pipeline.py 340, caught at 395
                 /\ session_review' = AssignBeforeHook(Existing, llm_output)
                 /\ session_dirty' = ColumnsBeforeHook
                 /\ session_new' = session_new
                 /\ EnterProcedural
       ELSE IF VoiceAttrs
            THEN /\ session_new' =
                       Append(session_new,
                              NewRow(llm_output, llm_output.confidence,
                                     confidence_stats.articles_read))
                 /\ UNCHANGED <<session_review, session_dirty>>
                 /\ job_progress' = Absent
                 /\ outcome' = "returned"
                 /\ pc' = "caller"
            ELSE \* AttributeError at pipeline.py 363, caught at 395
                 /\ UNCHANGED <<session_review, session_new, session_dirty>>
                 /\ EnterProcedural
    /\ DropLocals
    /\ UNCHANGED <<USE_LANGGRAPH, providers, movie, db_reviews>>

\* pipeline.py 442-461: the vote-count sanity check and imdb_score/imdb_votes
AcceptOmdb(o, m) ==
    IF Truthy(o.imdb_votes) /\ Truthy(m.tmdb_vote_count)
       /\ m.tmdb_vote_count > 1000 /\ o.imdb_votes < 1000
    THEN NoOmdb ELSE o

\* positional arguments after self: SerperService.search_reviews,
\* search_reddit and search_forums declare (title, year, media_type)
SearchReviewsParams == 3
\* pipeline.py 421-423 pass (search_query, year, media_type, director_context)
SearchReviewsArgs == 4

\* calling an async def binds the arguments at the call, before any coroutine
\* exists: with more arguments than parameters the call raises TypeError
CallBinds(args, params) == args <= params

\* pipeline.py 414-494: the fan-out and the merge, inside try / except Exception
SearchReturn ==
    /\ pc = "search"
    /\ IF ~CallBinds(SearchReviewsArgs, SearchReviewsParams)
       THEN \* TypeError at pipeline.py 421 while the arguments of gather are
            \* built; caught at 485: all_results = [], no branch was started
            /\ imdb' = imdb
            /\ job_progress' = Absent
            /\ pc' = "fallback"
       ELSE \E o \in OmdbAnswers :
            /\ imdb' = AcceptOmdb(o, movie)
            /\ IF providers = {}
               THEN /\ job_progress' = Absent
                    /\ pc' = "fallback"
               ELSE /\ job_progress' = Progress("Reading articles...", 30)
                    /\ pc' = "read"
    /\ UNCHANGED <<USE_LANGGRAPH, providers, movie, db_reviews, session_review, session_new,
                   session_dirty, confidence_stats, llm_output, outcome>>

\* pipeline.py 975-1015: _create_fallback_review
FallbackReturn ==
    /\ pc = "fallback"
    /\ \E out \in SynthReturns(fallback_client) :
          /\ IF ~VoiceAttrs
             THEN \* AttributeError at pipeline.py 1003
                  /\ outcome' = "AttributeError"
                  /\ session_new' = session_new
             ELSE IF Len(db_reviews) > 0
             THEN \* reviews.movie_id is unique
                  /\ outcome' = "IntegrityError"
                  /\ session_new' = session_new
             ELSE /\ outcome' = "returned"
                  /\ session_new' = Append(session_new, NewRow(out, "LOW", 0))
    /\ pc' = "caller"
    /\ DropLocals
    /\ UNCHANGED <<USE_LANGGRAPH, providers, movie, db_reviews, session_review, session_dirty,
                   job_progress>>

\* pipeline.py 537-696: articles are read, the confidence is computed
ReadReturn ==
    /\ pc = "read"
    /\ \E a \in 1..MaxArticles, r \in RedditCounts, c \in CharVolumes, d \in DaysOld :
          confidence_stats' =
             [confidence_tier |->
                 ConfidenceOverride(TierOf(CalculateConfidenceScore(a, r, c, d)),
                                    OrZero(movie.tmdb_vote_count)),
              articles_read |-> a]
    /\ job_progress' = Progress("Writing your verdict...", 80)
    /\ pc' = "synth"
    /\ UNCHANGED <<USE_LANGGRAPH, providers, movie, db_reviews, session_review, session_new,
                   session_dirty, imdb, llm_output, outcome>>

\* pipeline.py 697-713: synthesize_review returns
SynthReturn ==
    /\ pc = "synth"
    /\ llm_output' \in SynthReturns(fallback_client)
    /\ pc' = "sanity"
    /\ UNCHANGED <<USE_LANGGRAPH, providers, movie, db_reviews, session_review, session_new,
                   session_dirty, imdb, confidence_stats, outcome, job_progress>>

\* pipeline.py 723-725: where each of the two values is taken from
score_source == IF Truthy(imdb.imdb_score) THEN "IMDb" ELSE "TMDB"
votes_source == IF Truthy(imdb.imdb_votes) THEN "IMDb" ELSE "TMDB"

override_score == OverrideScore(imdb.imdb_score, movie)
override_votes == OverrideVotes(imdb.imdb_votes, movie)

\* pipeline.py 715-760: rules 1 and 2, inside the sentiment check
SanityCheck ==
    /\ pc = "sanity"
    /\ llm_output' =
          IF OverrideBound(llm_output)
          THEN SoftenNegative(HighScorePrivilege(llm_output, override_score, override_votes))
          ELSE llm_output
    /\ pc' = "safety_net"
    /\ UNCHANGED <<USE_LANGGRAPH, providers, movie, db_reviews, session_review, session_new,
                   session_dirty, imdb, confidence_stats, outcome, job_progress>>

\* pipeline.py 762-836: rules 3 to 6 and the confidence overwrite
SafetyNet ==
    /\ pc = "safety_net"
    /\ IF ~OverrideBound(llm_output)
       THEN \* override_score is unbound at pipeline.py 769; except at 833
            /\ job_progress' = Absent
            /\ outcome' = "UnboundLocalError"
            /\ pc' = "caller"
            /\ DropLocals
       ELSE /\ llm_output' =
                 OverwriteConfidence(
                   LowConfidenceDemote(
                     MidScoreSafetyNet(
                       HardLowScoreOverride(
                         LowScoreSafetyNet(llm_output, override_score, override_votes),
                         override_score, override_votes),
                       override_score, override_votes),
                     confidence_stats),
                   confidence_stats)
            /\ pc' = "cache"
            /\ UNCHANGED <<outcome, job_progress, imdb, confidence_stats>>
    /\ UNCHANGED <<USE_LANGGRAPH, providers, movie, db_reviews, session_review, session_new,
                   session_dirty>>

\* pipeline.py 841-944: Step 5 CACHE and Step 6 ENRICH
Cache ==
    /\ pc = "cache"
    /\ IF Existing # NoRow
       THEN IF VoiceAttrs
            THEN /\ session_review' = FullUpdate(Existing, llm_output, MaxArticles)
                 /\ session_dirty' = AllColumns
                 /\ job_progress' = Absent
                 /\ outcome' = "returned"
            ELSE \* AttributeError at pipeline.py 859, not caught
                 /\ session_review' = AssignBeforeHook(Existing, llm_output)
                 /\ session_dirty' = session_dirty \cup ColumnsBeforeHook
                 /\ outcome' = "AttributeError"
                 /\ UNCHANGED job_progress
            /\ UNCHANGED session_new
       ELSE IF VoiceAttrs
            THEN /\ session_new' = Append(session_new,
                                          NewRow(llm_output, llm_output.confidence, MaxArticles))
                 /\ job_progress' = Absent
                 /\ outcome' = "returned"
                 /\ UNCHANGED <<session_review, session_dirty>>
            ELSE \* AttributeError at pipeline.py 891, not caught
                 /\ outcome' = "AttributeError"
                 /\ UNCHANGED <<session_review, session_new, session_dirty, job_progress>>
    /\ pc' = "caller"
    /\ DropLocals
    /\ UNCHANGED <<USE_LANGGRAPH, providers, movie, db_reviews>>

\* search.py 310-316: the percent the SSE reader sends for a stored value
ObservedPercent(progress_data) == progress_data.percent

\* search.py 393-408: commit on return, rollback and a failure message otherwise
CallerFinish ==
    /\ pc = "caller"
    /\ IF outcome = "returned"
       THEN /\ db_reviews' = IF session_review # NoRow THEN <<session_review>>
                             ELSE db_reviews \o session_new
            /\ UNCHANGED job_progress
       ELSE /\ db_reviews' = db_reviews
            /\ job_progress' = Progress("Failed", 0)
    /\ session_review' = NoRow
    /\ session_new' = <<>>
    /\ session_dirty' = {}
    /\ pc' = "finished"
    /\ UNCHANGED <<USE_LANGGRAPH, providers, movie, imdb, confidence_stats, llm_output, outcome>>

\* a run from its start; no run gets past SearchReturn to the reading step
RunNext ==
    StartRun \/ AgentReturn \/ AgentPersist \/ SearchReturn \/ FallbackReturn \/ CallerFinish

\* the steps of the procedural route after a search that found results,
\* pipeline.py 497-944, entered with sampled values of what the search left
PolicyInit ==
    /\ USE_LANGGRAPH = FALSE
    /\ providers = SearchBranches
    /\ movie \in Movies
    /\ imdb \in {AcceptOmdb(o, movie) : o \in OmdbAnswers}
    /\ db_reviews \in {<<>>, <<StoredRow>>}
    /\ session_review = NoRow
    /\ session_new = <<>>
    /\ session_dirty = {}
    /\ pc = "read"
    /\ confidence_stats = NoStats
    /\ llm_output = DegradedOutput
    /\ outcome = "none"
    /\ job_progress = Progress("Reading articles...", 30)
    /\ fallback_client = TRUE
    /\ s_pc = "idle"
    /\ content = NoContent
    /\ calls = <<>>
    /\ s_result = NoResult

PolicyNext ==
    ReadReturn \/ SynthReturn \/ SanityCheck \/ SafetyNet \/ Cache \/ CallerFinish

-----------------------------------------------------------------------------
(* get_or_create_movie, called from two sessions for the same tmdb_id *)

Sessions == {"a", "b"}

NoMovie == "none"

\* a test of the error text that matches nothing
IsDuplicateKeyErrorNever(e) == FALSE

\* pipeline.py 129: the text of a unique violation of PostgreSQL holds
\* "duplicate key" and "unique"; the text of other errors holds neither
IsDuplicateKeyError(e) == e = "UniqueViolationError"

\* select(Movie).where(Movie.tmdb_id == tmdb_id) under READ COMMITTED: the
\* committed row, or the row this session inserted itself
SelectMovie(s) ==
    IF gm_pending[s] THEN s
    ELSE IF db_movies # {} THEN CHOOSE m \in db_movies : TRUE
    ELSE NoMovie

MovieInit ==
    /\ db_movies = {}
    /\ gm_pending = [s \in Sessions |-> FALSE]
    /\ gm_pc = [s \in Sessions |-> "select"]
    /\ gm_movie = [s \in Sessions |-> NoMovie]
    /\ gm_error = [s \in Sessions |-> "none"]
    /\ gm_conflict = [s \in Sessions |-> FALSE]
    /\ gm_end = [s \in Sessions |-> "open"]

Return(s, m) ==
    /\ gm_movie' = [gm_movie EXCEPT ![s] = m]
    /\ gm_pc' = [gm_pc EXCEPT ![s] = "returned"]

Raise(s, e) ==
    /\ gm_error' = [gm_error EXCEPT ![s] = e]
    /\ gm_pc' = [gm_pc EXCEPT ![s] = "raised"]

\* pipeline.py 76-80
FirstSelect(s) ==
    /\ gm_pc[s] = "select"
    /\ IF SelectMovie(s) # NoMovie
       THEN Return(s, SelectMovie(s))
       ELSE gm_pc' = [gm_pc EXCEPT ![s] = "fetch"] /\ UNCHANGED gm_movie
    /\ UNCHANGED <<db_movies, gm_pending, gm_error, gm_conflict, gm_end>>

\* pipeline.py 82-114: the TMDB fetch answers or raises
FetchTmdb(s) ==
    /\ gm_pc[s] = "fetch"
    /\ \/ gm_pc' = [gm_pc EXCEPT ![s] = "recheck"] /\ UNCHANGED gm_error
       \/ Raise(s, "TMDBError")
    /\ UNCHANGED <<db_movies, gm_pending, gm_movie, gm_conflict, gm_end>>

\* pipeline.py 116-120
Recheck(s) ==
    /\ gm_pc[s] = "recheck"
    /\ IF SelectMovie(s) # NoMovie
       THEN Return(s, SelectMovie(s))
       ELSE gm_pc' = [gm_pc EXCEPT ![s] = "flush"] /\ UNCHANGED gm_movie
    /\ UNCHANGED <<db_movies, gm_pending, gm_error, gm_conflict, gm_end>>

\* pipeline.py 122-135 up to the re-read: the INSERT waits for a transaction
\* that holds an uncommitted row with the same tmdb_id (models.py 18)
Flush(s) ==
    /\ gm_pc[s] = "flush"
    /\ \A t \in Sessions \ {s} : ~gm_pending[t]
    /\ \E e \in IF db_movies # {} THEN {"UniqueViolationError"}
                ELSE {"none", "OperationalError"} :
          IF e = "none"
          THEN /\ gm_pending' = [gm_pending EXCEPT ![s] = TRUE]
               /\ Return(s, s)
               /\ UNCHANGED <<gm_error, gm_conflict>>
          ELSE IF IsDuplicateKeyError(e)
          THEN \* db.rollback(), then the select of line 131 is awaited
               /\ gm_conflict' = [gm_conflict EXCEPT ![s] = TRUE]
               /\ gm_pc' = [gm_pc EXCEPT ![s] = "reselect"]
               /\ UNCHANGED <<gm_pending, gm_movie, gm_error>>
          ELSE /\ Raise(s, e)
               /\ UNCHANGED <<gm_pending, gm_movie, gm_conflict>>
    /\ UNCHANGED <<db_movies, gm_end>>

\* pipeline.py 131-135
Reselect(s) ==
    /\ gm_pc[s] = "reselect"
    /\ IF SelectMovie(s) # NoMovie
       THEN Return(s, SelectMovie(s)) /\ UNCHANGED gm_error
       ELSE Raise(s, "UniqueViolationError") /\ UNCHANGED gm_movie
    /\ UNCHANGED <<db_movies, gm_pending, gm_conflict, gm_end>>

\* routers/search.py 398-402: the caller goes on to generate the review and
\* commits, or rolls back when anything raised
CallerEnd(s) ==
    /\ gm_pc[s] \in {"returned", "raised"}
    /\ \E end \in IF gm_pc[s] = "raised" THEN {"rollback"} ELSE {"commit", "rollback"} :
          /\ gm_end' = [gm_end EXCEPT ![s] = end]
          /\ db_movies' = IF end = "commit" /\ gm_pending[s]
                          THEN db_movies \cup {s} ELSE db_movies
    /\ gm_pending' = [gm_pending EXCEPT ![s] = FALSE]
    /\ gm_pc' = [gm_pc EXCEPT ![s] = "closed"]
    /\ UNCHANGED <<gm_movie, gm_error, gm_conflict>>

MovieNext ==
    \E s \in Sessions :
        FirstSelect(s) \/ FetchTmdb(s) \/ Recheck(s) \/ Flush(s) \/ Reselect(s) \/ CallerEnd(s)

-----------------------------------------------------------------------------
(* two runs of generate_review_for_movie for one title without a Review,    *)
(* each in its own session (routers/search.py 393-408); the runs share the  *)
(* reviews table and job_progress[tmdb_id]                                  *)

VARIABLES
    rc_pc,              \* per session: position of the run
    rc_outcome,         \* per session: how generate_review_for_movie ended
    rc_pending,         \* per session: a flushed Review its transaction has not ended
    rc_reviews,         \* committed rows of table reviews for the title
    rc_progress         \* job_progress[tmdb_id]

raceVars == <<rc_pc, rc_outcome, rc_pending, rc_reviews, rc_progress>>

RaceIdle ==
    /\ rc_pc = [s \in Sessions |-> "idle"]
    /\ rc_outcome = [s \in Sessions |-> "none"]
    /\ rc_pending = [s \in Sessions |-> FALSE]
    /\ rc_reviews = {}
    /\ rc_progress = Absent

RaceGoto(s, p) == rc_pc' = [rc_pc EXCEPT ![s] = p]

RaceEnd(s, o) ==
    /\ rc_outcome' = [rc_outcome EXCEPT ![s] = o]
    /\ RaceGoto(s, "caller")

\* db.add(review); await db.flush() on a table with reviews.movie_id unique
\* (models.py 46): the INSERT waits for a transaction holding an uncommitted
\* row of the movie and fails once a row of the movie is committed
RaceInsert(s) ==
    /\ \A t \in Sessions \ {s} : ~rc_pending[t]
    /\ IF rc_reviews # {}
       THEN /\ RaceEnd(s, "IntegrityError")
            /\ UNCHANGED rc_pending
       ELSE /\ RaceEnd(s, "returned")
            /\ rc_pending' = [rc_pending EXCEPT ![s] = TRUE]

\* pipeline.py 254-314 / 399
RaceStart(s) ==
    /\ rc_pc[s] = "idle"
    /\ IF USE_LANGGRAPH
       THEN /\ rc_progress' = Progress("Running AI Agent...", 10)
            /\ RaceGoto(s, "agent")
       ELSE /\ rc_progress' = Progress("Searching for reviews...", 10)
            /\ RaceGoto(s, "search")
    /\ UNCHANGED <<rc_outcome, rc_pending, rc_reviews>>

\* pipeline.py 316-327: run_agent_pipeline reports an error or raises, or
\* returns an output and the select of the existing Review is awaited
RaceAgent(s) ==
    /\ rc_pc[s] = "agent"
    /\ \/ /\ rc_progress' = Progress("Searching for reviews...", 10)
          /\ RaceGoto(s, "search")
       \/ /\ RaceGoto(s, "agent_persist")
          /\ UNCHANGED rc_progress
    /\ UNCHANGED <<rc_outcome, rc_pending, rc_reviews>>

\* pipeline.py 328-396: no Review is committed, so the route builds a new
\* one (AttributeError at 363, caught at 395)
RaceAgentPersist(s) ==
    /\ rc_pc[s] = "agent_persist"
    /\ IF VoiceAttrs
       THEN /\ RaceInsert(s)
            /\ rc_progress' = Absent
       ELSE /\ rc_progress' = Progress("Searching for reviews...", 10)
            /\ RaceGoto(s, "search")
            /\ UNCHANGED <<rc_outcome, rc_pending>>
    /\ UNCHANGED rc_reviews

\* pipeline.py 414-494
RaceSearch(s) ==
    /\ rc_pc[s] = "search"
    /\ IF ~CallBinds(SearchReviewsArgs, SearchReviewsParams)
       THEN /\ rc_progress' = Absent
            /\ RaceGoto(s, "fallback")
       ELSE /\ rc_progress' = Progress("Reading articles...", 30)
            /\ RaceGoto(s, "read")
    /\ UNCHANGED <<rc_outcome, rc_pending, rc_reviews>>

\* pipeline.py 976-989 / 697-713: synthesize_review is awaited and returns
RaceSynth(s) ==
    /\ rc_pc[s] \in {"fallback", "read"}
    /\ RaceGoto(s, "store")
    /\ UNCHANGED <<rc_outcome, rc_pending, rc_reviews, rc_progress>>

\* pipeline.py 992-1015 and 841-905: no Review of the title is committed,
\* so the run builds a new one
RaceStore(s) ==
    /\ rc_pc[s] = "store"
    /\ IF VoiceAttrs
       THEN RaceInsert(s)
       ELSE \* AttributeError at pipeline.py 1003 / 891
            /\ RaceEnd(s, "AttributeError")
            /\ UNCHANGED rc_pending
    /\ UNCHANGED <<rc_reviews, rc_progress>>

\* routers/search.py 393-408
RaceCallerFinish(s) ==
    /\ rc_pc[s] = "caller"
    /\ IF rc_outcome[s] = "returned"
       THEN /\ rc_reviews' = IF rc_pending[s] THEN rc_reviews \cup {s} ELSE rc_reviews
            /\ UNCHANGED rc_progress
       ELSE /\ rc_reviews' = rc_reviews
            /\ rc_progress' = Progress("Failed", 0)
    /\ rc_pending' = [rc_pending EXCEPT ![s] = FALSE]
    /\ RaceGoto(s, "finished")
    /\ UNCHANGED rc_outcome

RaceNext ==
    \E s \in Sessions :
        \/ RaceStart(s) \/ RaceAgent(s) \/ RaceAgentPersist(s) \/ RaceSearch(s)
        \/ RaceSynth(s) \/ RaceStore(s) \/ RaceCallerFinish(s)

-----------------------------------------------------------------------------
(* ArticleReader.read_urls and _read_reddit_urls, services/jina.py 77-292:   *)
(* the Reddit URLs of a batch are numbered 1..j_n[b], URL 1 is the test URL; *)
(* _google_cache_blocked is a field of the jina_service singleton            *)

Batches == {1, 2}

Urls == 1..MaxUrls

VARIABLES
    j_blocked,      \* self._google_cache_blocked
    j_pc,           \* per batch: "off", "start", "others", "test", "direct", "cache", "done"
    j_n,            \* per batch: len(reddit_urls)
    j_task,         \* per batch and URL: where the URL's fetch stands
    j_direct,       \* per batch: URLs for which a GET to old.reddit.com was sent
    j_cache,        \* per batch: URLs for which a GET to the Google cache was sent
    j_m,            \* per batch: len(other_urls)
    j_other         \* per batch and non-Reddit URL: where its _read task stands

jinaVars == <<j_blocked, j_pc, j_n, j_task, j_direct, j_cache, j_m, j_other>>

Others == 1..MaxOthers

JinaIdle ==
    /\ j_blocked = FALSE
    /\ j_pc = [b \in Batches |-> "off"]
    /\ j_n = [b \in Batches |-> 0]
    /\ j_task = [b \in Batches |-> [u \in Urls |-> "none"]]
    /\ j_direct = [b \in Batches |-> {}]
    /\ j_cache = [b \in Batches |-> {}]
    /\ j_m = [b \in Batches |-> 0]
    /\ j_other = [b \in Batches |-> [o \in Others |-> "none"]]

\* one batch on the singleton
JinaInit ==
    /\ j_blocked \in BOOLEAN
    /\ j_pc = [b \in Batches |-> IF b = 1 THEN "start" ELSE "off"]
    /\ j_n \in {f \in [Batches -> 0..MaxUrls] : f[2] = 0}
    /\ j_task = [b \in Batches |-> [u \in Urls |-> "none"]]
    /\ j_direct = [b \in Batches |-> {}]
    /\ j_cache = [b \in Batches |-> {}]
    /\ j_m \in {f \in [Batches -> 0..MaxOthers] : f[2] = 0}
    /\ j_other = [b \in Batches |-> [o \in Others |-> "none"]]

\* two batches started on the singleton jina_service (jina.py 516), each by
\* its own run of the pipeline
JinaPairInit ==
    /\ j_blocked \in BOOLEAN
    /\ j_pc = [b \in Batches |-> "start"]
    /\ j_n \in [Batches -> 1..MaxPairUrls]
    /\ j_m \in [Batches -> 0..1]
    /\ j_task = [b \in Batches |-> [u \in Urls |-> "none"]]
    /\ j_direct = [b \in Batches |-> {}]
    /\ j_cache = [b \in Batches |-> {}]
    /\ j_other = [b \in Batches |-> [o \in Others |-> "none"]]

\* urls[1:]
Remaining(b) == 2..j_n[b]

\* tasks inside `async with semaphore`
InFlight(b) == {u \in Remaining(b) : j_task[b][u] \in {"direct", "cache"}}

SemaphoreFreeUnbounded(b) == TRUE

SemaphoreFree(b) == Cardinality(InFlight(b)) < MaxConcurrent

\* _read tasks of step 1 inside `async with semaphore`
OthersInFlight(b) == {o \in Others : j_other[b][o] = "fetching"}

OtherSemaphoreFree(b) == Cardinality(OthersInFlight(b)) < MaxConcurrent

\* GETs of the batch that were sent and have not answered: step 1 fetches,
\* the test GET, direct GETs and cache lookups
FetchesInFlight(b) ==
    Cardinality(OthersInFlight(b))
    + Cardinality({u \in Urls : j_task[b][u] \in {"direct", "cache"}})

TaskDone(b, u) == j_task[b][u] \in {"ok", "cache_ok", "cache_failed", "cache_skipped"}

SetTask(b, u, t) == j_task' = [j_task EXCEPT ![b][u] = t]

\* jina.py 158 / 185: `if test_result:` ... `else:`
ReadModeAlwaysDirect(test_ok) == "direct"

ReadMode(test_ok) == IF test_ok THEN "direct" ELSE "cache"

\* read_urls 119-132 and _read_reddit_urls 145-156: step 2 up to the test GET
RedditStep(b) ==
    IF j_n[b] = 0
    THEN /\ j_pc' = [j_pc EXCEPT ![b] = "done"]
         /\ UNCHANGED <<j_task, j_direct>>
    ELSE /\ j_pc' = [j_pc EXCEPT ![b] = "test"]
         /\ SetTask(b, 1, "direct")
         /\ j_direct' = [j_direct EXCEPT ![b] = {1}]

\* read_urls 91-106: the flag is reset and the _read tasks of step 1 are
\* created; without other_urls step 2 begins at once
ReadUrlsStart(b) ==
    /\ j_pc[b] = "start"
    /\ j_blocked' = FALSE
    /\ IF j_m[b] = 0
       THEN RedditStep(b) /\ UNCHANGED j_other
       ELSE /\ j_pc' = [j_pc EXCEPT ![b] = "others"]
            /\ j_other' = [j_other EXCEPT ![b] =
                    [o \in Others |-> IF o <= j_m[b] THEN "waiting" ELSE "none"]]
            /\ UNCHANGED <<j_task, j_direct>>
    /\ UNCHANGED <<j_n, j_cache, j_m>>

\* _read 101-102: the task enters the semaphore and read_url sends its GET
OtherStart(b, o) ==
    /\ j_pc[b] = "others" /\ j_other[b][o] = "waiting"
    /\ OtherSemaphoreFree(b)
    /\ j_other' = [j_other EXCEPT ![b][o] = "fetching"]
    /\ UNCHANGED <<j_blocked, j_pc, j_n, j_task, j_direct, j_cache, j_m>>

\* _read 102-104: read_url answers, with content or None
OtherReturn(b, o) ==
    /\ j_pc[b] = "others" /\ j_other[b][o] = "fetching"
    /\ j_other' = [j_other EXCEPT ![b][o] = "done"]
    /\ UNCHANGED <<j_blocked, j_pc, j_n, j_task, j_direct, j_cache, j_m>>

\* read_urls 106-124: gather returns and step 2 begins
OthersGathered(b) ==
    /\ j_pc[b] = "others"
    /\ \A o \in Others : j_other[b][o] \in {"none", "done"}
    /\ RedditStep(b)
    /\ UNCHANGED <<j_blocked, j_n, j_cache, j_m, j_other>>

\* _read_reddit_urls 156-196: the test GET answers and the tasks for urls[1:]
\* are created
TestReturn(b) ==
    /\ j_pc[b] = "test"
    /\ \E test_ok \in BOOLEAN :
        /\ j_pc' = [j_pc EXCEPT ![b] = ReadMode(test_ok)]
        /\ j_task' = [j_task EXCEPT ![b] =
                [u \in Urls |-> IF u = 1 THEN (IF test_ok THEN "ok" ELSE "failed")
                                ELSE IF u \in Remaining(b) THEN "waiting"
                                ELSE "none"]]
    /\ UNCHANGED <<j_blocked, j_n, j_direct, j_cache, j_m, j_other>>

\* _read_reddit 167-170: the task enters the semaphore and sends its GET
DirectStart(b, u) ==
    /\ j_pc[b] = "direct" /\ u \in Remaining(b) /\ j_task[b][u] = "waiting"
    /\ SemaphoreFree(b)
    /\ SetTask(b, u, "direct")
    /\ j_direct' = [j_direct EXCEPT ![b] = @ \cup {u}]
    /\ UNCHANGED <<j_blocked, j_pc, j_n, j_cache, j_m, j_other>>

\* _read_reddit 170-174: on a failed GET the cache is asked for this URL,
\* whatever _google_cache_blocked says
DirectReturn(b, u) ==
    /\ j_pc[b] = "direct" /\ u \in Remaining(b) /\ j_task[b][u] = "direct"
    /\ \E ok \in BOOLEAN :
        IF ok
        THEN /\ SetTask(b, u, "ok")
             /\ UNCHANGED j_cache
        ELSE /\ SetTask(b, u, "cache")
             /\ j_cache' = [j_cache EXCEPT ![b] = @ \cup {u}]
    /\ UNCHANGED <<j_blocked, j_pc, j_n, j_direct, j_m, j_other>>

\* _cache_reddit 198-205
CacheStart(b, u) ==
    /\ j_pc[b] = "cache" /\ u \in Remaining(b) /\ j_task[b][u] = "waiting"
    /\ SemaphoreFree(b)
    /\ IF j_blocked
       THEN /\ SetTask(b, u, "cache_skipped")
            /\ UNCHANGED j_cache
       ELSE /\ SetTask(b, u, "cache")
            /\ j_cache' = [j_cache EXCEPT ![b] = @ \cup {u}]
    /\ UNCHANGED <<j_blocked, j_pc, j_n, j_direct, j_m, j_other>>

CacheAnswers == {"page", "miss", "rate_limited"}

\* _fetch_google_cache 258-292
CacheReturn(b, u) ==
    /\ j_pc[b] \in {"direct", "cache"} /\ u \in Remaining(b) /\ j_task[b][u] = "cache"
    /\ \E r \in CacheAnswers :
        /\ j_blocked' = (j_blocked \/ r = "rate_limited")
        /\ SetTask(b, u, IF r = "page" THEN "cache_ok" ELSE "cache_failed")
    /\ UNCHANGED <<j_pc, j_n, j_direct, j_cache, j_m, j_other>>

\* gather returns (176-183 / 208-219) and read_urls returns
BatchReturn(b) ==
    /\ j_pc[b] \in {"direct", "cache"}
    /\ \A u \in Remaining(b) : TaskDone(b, u)
    /\ j_pc' = [j_pc EXCEPT ![b] = "done"]
    /\ UNCHANGED <<j_blocked, j_n, j_task, j_direct, j_cache, j_m, j_other>>

JinaNext ==
    \E b \in Batches :
        \/ ReadUrlsStart(b) \/ TestReturn(b) \/ BatchReturn(b)
        \/ OthersGathered(b)
        \/ \E o \in Others : OtherStart(b, o) \/ OtherReturn(b, o)
        \/ \E u \in Urls :
            \/ DirectStart(b, u) \/ DirectReturn(b, u)
            \/ CacheStart(b, u) \/ CacheReturn(b, u)

-----------------------------------------------------------------------------
(* calculate_confidence as a function of its arguments, pipeline.py 139-234 *)

VARIABLES
    cf_args,        \* articles_read, reddit URLs among selected_urls,
                    \* filtered_opinion_chars, days since release_date (None: no
                    \* release_date, or one that does not parse)
    cf_stats,       \* the returned stats, NoConfidence before the call
    cf_votes,       \* movie.tmdb_vote_count
    cf_final        \* confidence_stats after pipeline.py 672-695

confVars == <<cf_args, cf_stats, cf_votes, cf_final>>

NoConfidence == [confidence_score |-> None, confidence_tier |-> "none"]

ConfArgs(a, r, c, d) == [articles_read |-> a, reddit_count |-> r, chars |-> c, days_old |-> d]

ConfIdle ==
    /\ cf_args = ConfArgs(0, 0, 0, None) /\ cf_stats = NoConfidence
    /\ cf_votes = None /\ cf_final = NoConfidence

\* sampled movie.tmdb_vote_count around the two thresholds of the override
VoteCounts == {None, 0, 300, 301, 1000, 1001}

ReadCounts == 0..MaxRead

RedditSources == 0..MaxReddit

CharSamples == {0, 2999, 3000, 7999, 8000, 14999, 15000, 16000}

DaySamples == {-5, 0, 30, 31, 90, 91, 365, 366, 400}

ConfInit ==
    /\ cf_args \in {ConfArgs(a, r, c, d) : a \in ReadCounts, r \in RedditSources,
                                          c \in CharSamples, d \in DaySamples \cup {None}}
    /\ cf_stats = NoConfidence
    /\ cf_votes \in VoteCounts
    /\ cf_final = NoConfidence

ConfidenceOf(args) ==
    LET score == CalculateConfidenceScore(args.articles_read, args.reddit_count,
                                          args.chars, args.days_old)
    IN [confidence_score |-> score, confidence_tier |-> TierOf(score)]

\* pipeline.py 664-670
CalculateConfidence ==
    /\ cf_stats = NoConfidence
    /\ cf_stats' = ConfidenceOf(cf_args)
    /\ UNCHANGED <<cf_args, cf_votes, cf_final>>

\* variant: the override replaces the tier and leaves the score
TmdbConfidenceOverrideTierOnly(stats, tmdb_votes) ==
    [stats EXCEPT !.confidence_tier = ConfidenceOverride(stats.confidence_tier, tmdb_votes)]

\* pipeline.py 677-695: tier and score after the vote-count override
TmdbConfidenceOverride(stats, tmdb_votes) ==
    LET s1 == IF stats.confidence_tier = "LOW" /\ tmdb_votes > 300
              THEN [confidence_tier |-> "MEDIUM",
                    confidence_score |-> IF stats.confidence_score >= 55
                                         THEN stats.confidence_score ELSE 55]
              ELSE stats
    IN IF s1.confidence_tier \in {"LOW", "MEDIUM"} /\ tmdb_votes > 1000
       THEN [confidence_tier |-> "HIGH",
             confidence_score |-> IF s1.confidence_score >= 75
                                  THEN s1.confidence_score ELSE 75]
       ELSE s1

\* pipeline.py 672-695
ApplyTmdbOverride ==
    /\ cf_stats # NoConfidence /\ cf_final = NoConfidence
    /\ cf_final' = TmdbConfidenceOverride(cf_stats, OrZero(cf_votes))
    /\ UNCHANGED <<cf_args, cf_stats, cf_votes>>

ConfNext == CalculateConfidence \/ ApplyTmdbOverride

-----------------------------------------------------------------------------
(* services/freshness.py and the staleness test of smart_refresh,            *)
(* jobs/daily_sync.py 137-171, as functions of the days since release_date  *)
(* (None: no release_date, or one that does not parse) and of the review's   *)
(* age in hours (None: no generated_at, or one that does not parse)          *)

VARIABLES
    fr_args,        \* days_since_release and age_hours of one Review
    fr_out          \* ttl_hours, is_review_fresh and smart_refresh's choice

freshVars == <<fr_args, fr_out>>

NoFreshness == [ttl_hours |-> None, fresh |-> FALSE, needs_refresh |-> FALSE, called |-> FALSE]

FreshArgs(d, h) == [days_since_release |-> d, age_hours |-> h]

FreshIdle == fr_args = FreshArgs(None, None) /\ fr_out = NoFreshness

\* days before today are negative for an unreleased title
ReleaseDaySamples == {-3, 0, 5, 7, 8, 13, 14, 29, 30, 31, 89, 90, 91, 200}

AgeHourSamples == {0, 5, 6, 7, 11, 12, 13, 20, 24, 25, 30, 47, 48, 49, 72, 73,
                   167, 168, 169, 719, 720, 721, 1000}

FreshInit ==
    /\ fr_args \in {FreshArgs(d, h) : d \in ReleaseDaySamples \cup {None},
                                      h \in AgeHourSamples \cup {None}}
    /\ fr_out = NoFreshness

\* freshness.py 11-50
calculate_review_ttl_hours(days_since_release) ==
    IF days_since_release = None THEN 48
    ELSE IF days_since_release < 0 THEN 6
    ELSE IF days_since_release <= 7 THEN 12
    ELSE IF days_since_release <= 30 THEN 48
    ELSE IF days_since_release <= 90 THEN 168
    ELSE 720

\* variant: a review whose age equals the TTL is still fresh
is_review_fresh_through_ttl(age_hours, days_since_release) ==
    IF age_hours = None THEN FALSE
    ELSE age_hours <= calculate_review_ttl_hours(days_since_release)

\* freshness.py 53-81
is_review_fresh(age_hours, days_since_release) ==
    IF age_hours = None THEN FALSE
    ELSE age_hours < calculate_review_ttl_hours(days_since_release)

\* daily_sync.py 142: timedelta(days=999) stands for a missing generated_at
review_age_hours(age_hours) == IF age_hours = None THEN 999 * 24 ELSE age_hours

\* daily_sync.py 126-171: is the title appended to candidates
needs_refresh(days_since_release, age_hours) ==
    IF days_since_release = None THEN FALSE
    ELSE IF days_since_release < 14 THEN review_age_hours(age_hours) > 24
    ELSE IF days_since_release < 30 THEN review_age_hours(age_hours) > 72
    ELSE IF days_since_release < 90 THEN review_age_hours(age_hours) > 168
    ELSE FALSE

CheckFreshness ==
    /\ ~fr_out.called
    /\ fr_out' = [ttl_hours |-> calculate_review_ttl_hours(fr_args.days_since_release),
                  fresh |-> is_review_fresh(fr_args.age_hours, fr_args.days_since_release),
                  needs_refresh |-> needs_refresh(fr_args.days_since_release, fr_args.age_hours),
                  called |-> TRUE]
    /\ UNCHANGED fr_args

FreshNext == CheckFreshness

-----------------------------------------------------------------------------
(* The LLMReviewOutput constructor, schemas.py 90-118, as a function of the *)
(* JSON object the provider sent: which objects pass validation and what the *)
(* accepted LLMReviewOutput holds.  Missing stands for an absent key,        *)
(* NotInt for a value pydantic cannot read as an integer.                    *)

Missing == "missing"

NotInt == -2

VARIABLES
    sc_data,        \* the parsed JSON object
    sc_out          \* the outcome of the LLMReviewOutput constructor

schemaVars == <<sc_data, sc_out>>

RawVerdicts == Verdicts \cup {"SKIP IT", "worth it", Missing}

RawTiers == Tiers \cup {"UNSURE", Missing}

RawPcts == {None, 0, 10, 20, 70, 100, NotInt}

RawPoints == 0..MaxPoints

JsonObjects ==
    [review_text : BOOLEAN,         \* key present and a string
     verdict : RawVerdicts,
     praise_points : RawPoints \cup {None},      \* None: key absent
     confidence : RawTiers,
     positive_pct : RawPcts,
     negative_pct : RawPcts,
     mixed_pct : RawPcts]

NoValidation == [accepted |-> FALSE, called |-> FALSE]

SchemaIdle ==
    /\ sc_data = [review_text |-> FALSE, verdict |-> Missing, praise_points |-> None,
                  confidence |-> Missing, positive_pct |-> None, negative_pct |-> None,
                  mixed_pct |-> None]
    /\ sc_out = NoValidation

SchemaInit ==
    /\ sc_data \in JsonObjects
    /\ sc_out = NoValidation

\* schemas.py 105-107: Optional[int] = None
OptionalIntOk(x) == x # NotInt

\* schemas.py 92-107: required review_text, the verdict pattern, the
\* confidence pattern with its default, the three optional integers
Validates(data) ==
    /\ data.review_text
    /\ data.verdict \in Verdicts
    /\ data.confidence \in Tiers \cup {Missing}
    /\ OptionalIntOk(data.positive_pct)
    /\ OptionalIntOk(data.negative_pct)
    /\ OptionalIntOk(data.mixed_pct)

\* the LLMReviewOutput built from an object that validates
Validated(data) ==
    [accepted |-> TRUE, called |-> TRUE,
     verdict |-> data.verdict,
     praise_points |-> IF data.praise_points = None THEN 0 ELSE data.praise_points,
     confidence |-> IF data.confidence = Missing THEN "MEDIUM" ELSE data.confidence,
     positive_pct |-> data.positive_pct,
     negative_pct |-> data.negative_pct,
     mixed_pct |-> data.mixed_pct]

\* llm.py 407: the LLMReviewOutput constructor is called on data
ValidateOutput ==
    /\ ~sc_out.called
    /\ sc_out' = IF Validates(sc_data) THEN Validated(sc_data)
                 ELSE [accepted |-> FALSE, called |-> TRUE]
    /\ UNCHANGED sc_data

SchemaNext == ValidateOutput

-----------------------------------------------------------------------------
(* the title relevance filter of select_best_sources, services/grep.py      *)
(* 210-243; strings are sequences of characters                              *)

Str_Up == <<"U", "p">>
Str_UpReview == <<"U", "p", " ", "(", "2", "0", "0", "9", ")", " ", "r", "e", "v", "i", "e", "w">>
Str_UpInTheAir == <<"U", "p", " ", "i", "n", " ", "t", "h", "e", " ", "A", "i", "r">>
Str_CoverUp == <<"C", "o", "v", "e", "r", " ", "U", "p", " ", "d", "i", "s", "c", "u", "s", "s", "i", "o", "n">>

\* sampled movie_title arguments, headlines / snippets and links
SampleTitles ==
    {<<"U", "p">>,
     <<" ", "u", "p", " ">>,
     <<"U", "s">>,
     <<"H", "e", "a", "t">>}
SampleTexts ==
    {<<"U", "p", " ", "(", "2", "0", "0", "9", ")", " ", "r", "e", "v", "i", "e", "w">>,
     <<"U", "p", " ", "i", "n", " ", "t", "h", "e", " ", "A", "i", "r">>,
     <<"C", "o", "v", "e", "r", " ", "U", "p", " ", "d", "i", "s", "c", "u", "s", "s", "i", "o", "n">>,
     <<"U", "p", "s", "i", "d", "e", " ", "D", "o", "w", "n">>,
     <<"s", "e", "e", " ", "U", "p", " ", "n", "o", "w">>,
     <<"C", "h", "e", "a", "t", " ", "U", "s">>,
     <<>>}
SampleLinks ==
    {<<"a", ".", "i", "o", "/", "u", "p">>,
     <<"a", ".", "i", "o", "/", "c", "u", "p">>,
     <<>>}

VARIABLES
    rl_title,       \* movie_title
    rl_result,      \* one entry r of serper_results
    rl_others,      \* how many other entries of serper_results match the title
    rl_out          \* match for r, and whether r is in filtered_results

relVars == <<rl_title, rl_result, rl_others, rl_out>>

SearchResult(t, sn, l) == [title |-> t, snippet |-> sn, link |-> l]

NoRelevance == [called |-> FALSE, match |-> FALSE, kept |-> FALSE]

RelIdle ==
    /\ rl_title = <<>> /\ rl_result = SearchResult(<<>>, <<>>, <<>>)
    /\ rl_others = 0 /\ rl_out = NoRelevance

OtherMatches == {0, 3, 4, 5}

RelInit ==
    /\ rl_title \in SampleTitles
    /\ rl_result \in {SearchResult(t, sn, l) : t \in SampleTexts, sn \in SampleTexts,
                                               l \in SampleLinks}
    /\ rl_others \in OtherMatches
    /\ rl_out = NoRelevance

\* str.lower() on the characters the samples use
LowerChar(c) ==
    CASE c = "U" -> "u" [] c = "A" -> "a" [] c = "C" -> "c" [] c = "D" -> "d"
      [] c = "H" -> "h" [] OTHER -> c

Lower(t) == [i \in 1..Len(t) |-> LowerChar(t[i])]

\* str.strip() for blanks
RECURSIVE Strip(_)
Strip(t) ==
    IF t = <<>> THEN t
    ELSE IF Head(t) = " " THEN Strip(Tail(t))
    ELSE IF t[Len(t)] = " " THEN Strip(SubSeq(t, 1, Len(t) - 1))
    ELSE t

\* \w of the re module
WordChars ==
    {"a", "b", "c", "d", "e", "f", "g", "h", "i", "j", "k", "l", "m", "n", "o", "p", "q",
     "r", "s", "t", "u", "v", "w", "x", "y", "z", "0", "1", "2", "3", "4", "5", "6", "7",
     "8", "9", "_"}

\* \b between t[p] and t[p + 1]; the ends of the string count as non-word
WordBoundary(t, p) ==
    LET before == p >= 1 /\ t[p] \in WordChars
        after == p < Len(t) /\ t[p + 1] \in WordChars
    IN before # after

OccursAt(pat, t, i) ==
    /\ i + Len(pat) - 1 <= Len(t)
    /\ \A k \in 1..Len(pat) : t[i + k - 1] = pat[k]

\* re.compile(rf"\b{re.escape(title_lower)}\b").search(t)
WordSearch(pat, t) ==
    \E i \in 1..Len(t) :
        OccursAt(pat, t, i) /\ WordBoundary(t, i - 1) /\ WordBoundary(t, i + Len(pat) - 1)

\* `title_lower in t`
Contains(pat, t) == pat = <<>> \/ \E i \in 1..Len(t) : OccursAt(pat, t, i)

\* grep.py 212-234: match for one result
TitleMatches(movie_title, r) ==
    LET title_lower == Strip(Lower(movie_title))
        is_short_title == Len(title_lower) <= 3
        r_title == Lower(r.title)
        r_snippet == Lower(r.snippet)
        r_link == Lower(r.link)
    IN IF is_short_title
       THEN WordSearch(title_lower, r_title) \/ WordSearch(title_lower, r_snippet)
            \/ WordSearch(title_lower, r_link)
       ELSE Contains(title_lower, r_title) \/ Contains(title_lower, r_snippet)
            \/ Contains(title_lower, r_link)

\* grep.py 216-243: r is matched, and filtered_results is the whole list
\* when fewer than 5 results matched
FilterResult ==
    /\ ~rl_out.called
    /\ LET match == TitleMatches(rl_title, rl_result)
           relevant == rl_others + (IF match THEN 1 ELSE 0)
       IN rl_out' = [called |-> TRUE, match |-> match,
                     kept |-> IF relevant < 5 THEN TRUE ELSE match]
    /\ UNCHANGED <<rl_title, rl_result, rl_others>>

RelNext == FilterResult

-----------------------------------------------------------------------------
(* smart_refresh, jobs/daily_sync.py 110-193: one sweep over the titles that *)
(* have a release_date and a Review                                          *)

VARIABLES
    sw_db,          \* the titles: days since release and the Review's age in hours
    sw_max,         \* max_refresh
    sw_pc,          \* "query", "refresh", "done"
    sw_candidates,  \* candidates, as indices into sw_db
    sw_entered,     \* titles for which generate_review_for_movie was called, in order
    sw_stats        \* refreshed / failed

sweepVars == <<sw_db, sw_max, sw_pc, sw_candidates, sw_entered, sw_stats>>

Titles == 1..MaxTitles

SweepTitle(d, h) == [days_since_release |-> d, age_hours |-> h]

SweepIdle ==
    /\ sw_db = [t \in Titles |-> SweepTitle(0, 0)]
    /\ sw_max = 0 /\ sw_pc = "idle" /\ sw_candidates = <<>> /\ sw_entered = <<>>
    /\ sw_stats = [refreshed |-> 0, failed |-> 0]

SweepDays == {5, 20, 95}

SweepAges == {20, 100, 800}

SweepInit ==
    /\ sw_db \in [Titles -> {SweepTitle(d, h) : d \in SweepDays, h \in SweepAges}]
    /\ sw_max \in 1..MaxRefresh
    /\ sw_pc = "query" /\ sw_candidates = <<>> /\ sw_entered = <<>>
    /\ sw_stats = [refreshed |-> 0, failed |-> 0]

\* daily_sync.py 126-132: the orders in which the query can return the
\* titles, release_date descending (ties in any order)
QueryOrders ==
    {o \in [Titles -> Titles] :
        /\ \A i, j \in Titles : i # j => o[i] # o[j]
        /\ \A i, j \in Titles :
              i < j => sw_db[o[i]].days_since_release <= sw_db[o[j]].days_since_release}

\* the entries of seq that satisfy Keep, in order
RECURSIVE FilterNeedsRefresh(_)
FilterNeedsRefresh(seq) ==
    IF seq = <<>> THEN <<>>
    ELSE LET t == Head(seq)
         IN (IF needs_refresh(sw_db[t].days_since_release, sw_db[t].age_hours)
             THEN <<t>> ELSE <<>>) \o FilterNeedsRefresh(Tail(seq))

Prefix(seq, n) == SubSeq(seq, 1, IF Len(seq) < n THEN Len(seq) ELSE n)

\* daily_sync.py 126-180: query, candidates, candidates[:max_refresh]
SelectCandidates ==
    /\ sw_pc = "query"
    /\ \E o \in QueryOrders :
          LET candidates == FilterNeedsRefresh([i \in Titles |-> o[i]])
          IN /\ sw_candidates' = Prefix(candidates, sw_max)
             /\ sw_pc' = IF candidates = <<>> THEN "done" ELSE "refresh"
    /\ UNCHANGED <<sw_db, sw_max, sw_entered, sw_stats>>

\* daily_sync.py 182-193: one turn of the loop; generate_review_for_movie
\* raises on llm_output.hook, the except clause rolls back and counts
RefreshTitle ==
    /\ sw_pc = "refresh" /\ sw_candidates # <<>>
    /\ sw_entered' = Append(sw_entered, Head(sw_candidates))
    /\ sw_candidates' = Tail(sw_candidates)
    /\ sw_stats' = IF VoiceAttrs
                   THEN [sw_stats EXCEPT !.refreshed = @ + 1]
                   ELSE [sw_stats EXCEPT !.failed = @ + 1]
    /\ UNCHANGED <<sw_db, sw_max, sw_pc>>

\* daily_sync.py 195-196
SweepReturn ==
    /\ sw_pc = "refresh" /\ sw_candidates = <<>>
    /\ sw_pc' = "done"
    /\ UNCHANGED <<sw_db, sw_max, sw_candidates, sw_entered, sw_stats>>

SweepNext == SelectCandidates \/ RefreshTitle \/ SweepReturn

-----------------------------------------------------------------------------
(* SerperService.search on the shared instance, services/serper.py 26-154:  *)
(* the searches of one parallel fan-out                                      *)

VARIABLES
    sp_key,         \* self._active_key: "primary" or "fallback"
    sp_switched,    \* self._switched_to_fallback
    sp_cfg,         \* whether SERPER_API_KEY_FALLBACK is set
    sp_exhausted,   \* the keys for which the API answers 402/429
    sp_search       \* per search: pc, key of its first POST, status of the
                    \* first answer (0: none yet), whether it was retried

serperVars == <<sp_key, sp_switched, sp_cfg, sp_exhausted, sp_search>>

Searches == 1..MaxSearches

NoSearch == [pc |-> "idle", sent |-> "none", first |-> 0, retried |-> FALSE]

SerperIdle ==
    /\ sp_key = "primary" /\ sp_switched = FALSE /\ sp_cfg = FALSE
    /\ sp_exhausted = {} /\ sp_search = [s \in Searches |-> NoSearch]

SerperInit ==
    /\ sp_key = "primary" /\ sp_switched = FALSE
    /\ sp_cfg \in BOOLEAN
    /\ sp_exhausted \in SUBSET {"primary", "fallback"}
    /\ sp_search = [s \in Searches |-> NoSearch]

\* the status codes the API can answer to a POST made with key k
StatusCodes(k) == IF k \in sp_exhausted THEN {402, 429} ELSE {200, 500}

\* serper.py 45-61: whether the switch is made
SwitchToFallback == ~sp_switched /\ sp_cfg

\* serper.py 98-103: the search sends its POST with the active key
Post(s) ==
    /\ sp_search[s].pc = "idle"
    /\ sp_search' = [sp_search EXCEPT ![s].pc = "posted", ![s].sent = sp_key]
    /\ UNCHANGED <<sp_key, sp_switched, sp_cfg, sp_exhausted>>

\* serper.py 105-147: the first answer arrives
Answer(s) ==
    /\ sp_search[s].pc = "posted"
    /\ \E status \in StatusCodes(sp_search[s].sent) :
        IF status \in {402, 429}
        THEN IF SwitchToFallback
             THEN /\ sp_key' = "fallback" /\ sp_switched' = TRUE
                  /\ sp_search' = [sp_search EXCEPT ![s].pc = "retry", ![s].first = status,
                                                    ![s].retried = TRUE]
             ELSE /\ sp_search' = [sp_search EXCEPT ![s].pc = "empty", ![s].first = status]
                  /\ UNCHANGED <<sp_key, sp_switched>>
        ELSE /\ sp_search' = [sp_search EXCEPT
                    ![s].pc = IF status = 200 THEN "results" ELSE "empty",
                    ![s].first = status]
             /\ UNCHANGED <<sp_key, sp_switched>>
    /\ UNCHANGED <<sp_cfg, sp_exhausted>>

\* serper.py 110-147: the answer to the retry with the fallback key
RetryAnswer(s) ==
    /\ sp_search[s].pc = "retry"
    /\ \E status \in StatusCodes("fallback") :
        sp_search' = [sp_search EXCEPT ![s].pc = IF status = 200 THEN "results" ELSE "empty"]
    /\ UNCHANGED <<sp_key, sp_switched, sp_cfg, sp_exhausted>>

SerperNext == \E s \in Searches : Post(s) \/ Answer(s) \/ RetryAnswer(s)

-----------------------------------------------------------------------------
(* select_best_sources from filtered_results on, services/grep.py 245-288,  *)
(* with get_source_diversity_score, 170-194.  A link is a host kind, a page *)
(* number and the characters that follow the page ("", "/", "#f", ...); the *)
(* part before them neither ends in "/" nor holds "#".                      *)

VARIABLES
    sl_results,     \* the links of filtered_results, in order
    sl_max,         \* max_total
    sl_out          \* the returned pair, NoSelection before the call

selectVars == <<sl_results, sl_max, sl_out>>

Link(k, n, t) == [kind |-> k, page |-> n, tail |-> t]

NoSelection == [returned |-> FALSE, urls |-> <<>>, primary |-> <<>>, backfill |-> <<>>]

SelectIdle == sl_results = <<>> /\ sl_max = 0 /\ sl_out = NoSelection

\* what can follow the page in a link
Tails == {<<"/">>, <<"#", "f">>, <<"/", "#", "f">>, <<"#", "f", "/">>}

RECURSIVE TailLinks(_)
TailLinks(ts) ==
    IF ts = {} THEN <<>>
    ELSE LET t == CHOOSE x \in ts : \A y \in ts : Len(x) < Len(y) \/ (Len(x) = Len(y) /\ (x[1] = "/" \/ y[1] # "/"))
         IN <<Link("other", 1, t)>> \o TailLinks(ts \ {t})

LinksOf(k, c) == [i \in 1..c |-> Link(k, i, <<>>)]

\* max_total: 12 at both call sites (pipeline.py 497, agent.py 125), 15 by default
MaxTotals == {12, 15}

SelectInit ==
    /\ \E ts \in SUBSET Tails, b \in 0..1,
          c \in 0..(5 + MaxOver), r \in 0..(5 + MaxOver),
          u \in 0..(2 + MaxOver), o \in 0..(3 + MaxOver) :
          sl_results = TailLinks(ts) \o LinksOf("blocked", b) \o LinksOf("critic", c)
                       \o LinksOf("reddit", r) \o LinksOf("user_review", u)
                       \o LinksOf("other", o)
    /\ sl_max \in MaxTotals
    /\ sl_out = NoSelection

\* str.rstrip("/")
RECURSIVE RStripSlash(_)
RStripSlash(t) ==
    IF t # <<>> /\ t[Len(t)] = "/" THEN RStripSlash(SubSeq(t, 1, Len(t) - 1)) ELSE t

\* str.split("#")[0]
RECURSIVE SplitHash(_)
SplitHash(t) ==
    IF t = <<>> \/ Head(t) = "#" THEN <<>> ELSE <<Head(t)>> \o SplitHash(Tail(t))

\* grep.py 249, 274, 282: url.rstrip("/").split("#")[0]
NormalizeLink(l) == [l EXCEPT !.tail = SplitHash(RStripSlash(l.tail))]

\* grep.py 250: any(d in link.lower() for d in BLOCKED)
IsBlocked(l) == l.kind = "blocked"

\* grep.py 246-254: the links of unique_results
RECURSIVE UniqueLinks(_, _)
UniqueLinks(seq, seen_urls) ==
    IF seq = <<>> THEN <<>>
    ELSE LET link == NormalizeLink(Head(seq))
         IN IF link \notin seen_urls /\ ~IsBlocked(link)
            THEN <<Head(seq)>> \o UniqueLinks(Tail(seq), seen_urls \cup {link})
            ELSE UniqueLinks(Tail(seq), seen_urls)

\* get_source_diversity_score 183-192: the links of one category, in order
RECURSIVE CategoryOf(_, _)
CategoryOf(seq, k) ==
    IF seq = <<>> THEN <<>>
    ELSE (IF Head(seq).kind = k THEN <<Head(seq)>> ELSE <<>>) \o CategoryOf(Tail(seq), k)

Range(seq) == {seq[i] : i \in 1..Len(seq)}

\* grep.py 266: [u for u in urls if u not in selected]
RECURSIVE NotIn(_, _)
NotIn(seq, set) ==
    IF seq = <<>> THEN <<>>
    ELSE (IF Head(seq) \in set THEN <<>> ELSE <<Head(seq)>>) \o NotIn(Tail(seq), set)

\* grep.py 270-277
RECURSIVE UniqueSelected(_, _)
UniqueSelected(seq, seen) ==
    IF seq = <<>> THEN <<>>
    ELSE LET normalized == NormalizeLink(Head(seq))
         IN IF normalized \notin seen
            THEN <<Head(seq)>> \o UniqueSelected(Tail(seq), seen \cup {normalized})
            ELSE UniqueSelected(Tail(seq), seen)

\* grep.py 280-286
RECURSIVE Backfill(_, _)
Backfill(seq, seen) ==
    IF seq = <<>> THEN <<>>
    ELSE (IF NormalizeLink(Head(seq)) \notin seen /\ Head(seq).kind # "reddit"
          THEN <<Head(seq)>> ELSE <<>>) \o Backfill(Tail(seq), seen)

\* grep.py 245-288
SelectBestSources(filtered_results, max_total) ==
    LET urls == UniqueLinks(filtered_results, {})
        quota == Prefix(CategoryOf(urls, "critic"), 5) \o Prefix(CategoryOf(urls, "reddit"), 5)
                 \o Prefix(CategoryOf(urls, "user_review"), 2)
                 \o Prefix(CategoryOf(urls, "other"), 3)
        selected == IF Len(quota) < max_total
                    THEN quota \o Prefix(NotIn(urls, Range(quota)), max_total - Len(quota))
                    ELSE quota
        unique_selected == UniqueSelected(selected, {})
        seen == {NormalizeLink(l) : l \in Range(unique_selected)}
    IN [returned |-> TRUE, urls |-> urls,
        primary |-> Prefix(unique_selected, max_total),
        backfill |-> Prefix(Backfill(urls, seen), 6)]

SelectSources ==
    /\ sl_out = NoSelection
    /\ sl_out' = SelectBestSources(sl_results, sl_max)
    /\ UNCHANGED <<sl_results, sl_max>>

SelectNext == SelectSources

-----------------------------------------------------------------------------
(* The opinion corpus by lengths: generate_review_for_movie, pipeline.py    *)
(* 605-655, and the input cap of synthesize_review, llm.py 231-234          *)

VARIABLES
    cp_args,        \* len(reddit_text), len(filtered_opinions), and where the
                    \* last "." of the cut critic text is (None: no ".")
    cp_pc,          \* "assemble", "cap", "sent"
    cp_corpus       \* the corpus by parts: header, community block, rest

corpusVars == <<cp_args, cp_pc, cp_corpus>>

MAX_LLM_CHARS == 15000

MAX_OPINIONS_CHARS == 10000

\* len("AUDIENCE REACTIONS (from Reddit/Forums):\n")
AudienceHeaderLen == 41

\* len("CRITICAL CONTEXT (Professional Reviews):\n")
CriticHeaderLen == 41

NoCorpus == [header |-> 0, community |-> 0, rest |-> 0, fallback |-> FALSE]

CorpusIdle ==
    /\ cp_args = [reddit_len |-> 0, critic_len |-> 0, last_period |-> None]
    /\ cp_pc = "idle" /\ cp_corpus = NoCorpus

RedditLens == {0, 100, 3000, 5000, 6000, 9959, 9960, 12000}

CriticLens == {0, 50, 5000, 9000, 10000, 12000, 15000, 20000}

\* 0-based index of the last "." in critic_text[:critic_limit]
PeriodSamples == {None, 0, 8000}

CorpusInit ==
    /\ cp_args \in [reddit_len : RedditLens, critic_len : CriticLens,
                    last_period : PeriodSamples]
    /\ cp_pc = "assemble" /\ cp_corpus = NoCorpus

MinOf(a, b) == IF a < b THEN a ELSE b

\* pipeline.py 618-624
CriticLimit(reddit_len) ==
    IF reddit_len > 0 THEN MAX_LLM_CHARS - MinOf(reddit_len, 5000) ELSE MAX_LLM_CHARS

\* pipeline.py 627-633: len(critic_text) after the cut
CutCriticLen(critic_len, critic_limit, last_period) ==
    IF critic_len > critic_limit
    THEN IF last_period # None /\ last_period > 0 /\ last_period < critic_limit
         THEN last_period + 1
         ELSE critic_limit
    ELSE critic_len

\* pipeline.py 610-655
AssembleCorpus ==
    /\ cp_pc = "assemble"
    /\ LET reddit_len == cp_args.reddit_len
           critic_len == CutCriticLen(cp_args.critic_len, CriticLimit(reddit_len),
                                      cp_args.last_period)
       IN cp_corpus' =
            IF reddit_len > 0
            THEN [header |-> AudienceHeaderLen, community |-> reddit_len,
                  rest |-> 2 + CriticHeaderLen + critic_len, fallback |-> FALSE]
            ELSE [header |-> 0, community |-> 0, rest |-> CriticHeaderLen + critic_len,
                  fallback |-> CriticHeaderLen + critic_len < 100]
    /\ cp_pc' = "cap"
    /\ UNCHANGED cp_args

\* opinions[:n] on a corpus kept by parts
CutCorpus(c, n) ==
    LET header == MinOf(c.header, n)
        community == MinOf(c.community, n - header)
    IN [c EXCEPT !.header = header, !.community = community,
                 !.rest = MinOf(c.rest, n - header - community)]

\* llm.py 231-234 (the fallback snippets of pipeline.py 650-654 hold no
\* community block)
CapOpinions ==
    /\ cp_pc = "cap"
    /\ cp_corpus' =
         IF cp_corpus.header + cp_corpus.community + cp_corpus.rest > MAX_OPINIONS_CHARS
            /\ ~cp_corpus.fallback
         THEN CutCorpus(cp_corpus, MAX_OPINIONS_CHARS)
         ELSE cp_corpus
    /\ cp_pc' = "sent"
    /\ UNCHANGED cp_args

CorpusNext == AssembleCorpus \/ CapOpinions

-----------------------------------------------------------------------------
(* Reading and labelling, generate_review_for_movie, pipeline.py 537-598,   *)
(* with the order in which read_urls returns its articles, jina.py 90-132.  *)
(* A URL is its number (its domain), whether it is a Reddit URL and whether  *)
(* its fetch yields content; an article is the number of the URL its text   *)
(* was fetched from, 0 for the joined search snippets.                      *)

VARIABLES
    lb_selected,    \* selected_urls
    lb_backfill,    \* backfill_urls
    lb_pc,          \* "read", "backfill", "label", "done"
    lb_articles,    \* articles
    lb_sections     \* labeled_sections: label (a URL number) and article

labelVars == <<lb_selected, lb_backfill, lb_pc, lb_articles, lb_sections>>

LabelIdle ==
    /\ lb_selected = <<>> /\ lb_backfill = <<>> /\ lb_pc = "idle"
    /\ lb_articles = <<>> /\ lb_sections = <<>>

FetchUrl(i, r, o) == [url |-> i, reddit |-> r, ok |-> o]

LabelInit ==
    /\ \E n \in 1..MaxSelected :
          lb_selected \in {q \in [1..n -> {FetchUrl(i, r, o) : i \in 1..n, r, o \in BOOLEAN}] :
                              \A i \in 1..n : q[i].url = i}
    /\ lb_backfill \in {<<>>} \cup {<<FetchUrl(MaxSelected + 1, FALSE, o)>> : o \in BOOLEAN}
    /\ lb_pc = "read" /\ lb_articles = <<>> /\ lb_sections = <<>>

\* the articles of the URLs of seq that are (reddit = r) and yield content
RECURSIVE ArticlesOf(_, _)
ArticlesOf(seq, r) ==
    IF seq = <<>> THEN <<>>
    ELSE (IF Head(seq).reddit = r /\ Head(seq).ok THEN <<Head(seq).url>> ELSE <<>>)
         \o ArticlesOf(Tail(seq), r)

\* read_urls 92-132: the articles of other_urls, then those of reddit_urls
ReadUrls(urls) == ArticlesOf(urls, FALSE) \o ArticlesOf(urls, TRUE)

\* pipeline.py 537
ReadSelected ==
    /\ lb_pc = "read"
    /\ lb_articles' = ReadUrls(lb_selected)
    /\ lb_pc' = "backfill"
    /\ UNCHANGED <<lb_selected, lb_backfill, lb_sections>>

\* pipeline.py 540-565: backfill of at most 3 URLs when fewer than 5 articles
\* were read, and the search snippets when there is no article at all
ReadBackfill ==
    /\ lb_pc = "backfill"
    /\ LET articles == IF Len(lb_articles) < 5 /\ lb_backfill # <<>>
                       THEN lb_articles \o ReadUrls(Prefix(lb_backfill, 3))
                       ELSE lb_articles
       IN lb_articles' = IF articles = <<>> THEN <<0>> ELSE articles
    /\ lb_pc' = "label"
    /\ UNCHANGED <<lb_selected, lb_backfill, lb_sections>>

\* pipeline.py 576-598
LabelSections ==
    /\ lb_pc = "label"
    /\ LET final_source_urls ==
              IF Len(lb_articles) > Len(lb_selected) /\ lb_backfill # <<>>
              THEN lb_selected \o Prefix(lb_backfill, Len(lb_articles) - Len(lb_selected))
              ELSE lb_selected
           n == MinOf(Len(final_source_urls), Len(lb_articles))
       IN lb_sections' = [i \in 1..n |-> [label |-> final_source_urls[i].url,
                                          article |-> lb_articles[i]]]
    /\ lb_pc' = "done"
    /\ UNCHANGED <<lb_selected, lb_backfill, lb_articles>>

LabelNext == ReadSelected \/ ReadBackfill \/ LabelSections

-----------------------------------------------------------------------------
(* with_retry, services/retry.py 22-73: one call of a wrapped function *)

VARIABLES
    rt_cfg,         \* max_retries, base_delay, max_delay of the decorator
    rt_attempt,     \* the loop variable
    rt_pc,          \* "call", "sleep", "returned", "raised", "exhausted"
    rt_outcomes,    \* how each attempt ended: "ok", "listed", "other"
    rt_delays       \* the delays passed to asyncio.sleep, in order

retryVars == <<rt_cfg, rt_attempt, rt_pc, rt_outcomes, rt_delays>>

RetryIdle ==
    /\ rt_cfg = [max_retries |-> 0, base_delay |-> 0, max_delay |-> 0]
    /\ rt_attempt = 0 /\ rt_pc = "idle" /\ rt_outcomes = <<>> /\ rt_delays = <<>>

BaseDelays == {1, 2}

MaxDelays == {3, 5}

RetryInit ==
    /\ rt_cfg \in [max_retries : 0..MaxRetries, base_delay : BaseDelays, max_delay : MaxDelays]
    /\ rt_attempt = 0 /\ rt_pc = "call" /\ rt_outcomes = <<>> /\ rt_delays = <<>>

RECURSIVE Pow2(_)
Pow2(n) == IF n = 0 THEN 1 ELSE 2 * Pow2(n - 1)

\* retry.py 56
RetryDelayUncapped(cfg, attempt) == cfg.base_delay * Pow2(attempt)

RetryDelay(cfg, attempt) == MinOf(cfg.base_delay * Pow2(attempt), cfg.max_delay)

\* how an attempt can end: it returns, it raises one of `exceptions` (the
\* TimeoutError of wait_for is one of them), or it raises something else
AttemptOutcomes == {"ok", "listed", "other"}

\* retry.py 44-70: one turn of the loop up to its sleep, return or raise
Attempt ==
    /\ rt_pc = "call"
    /\ \E o \in AttemptOutcomes :
        /\ rt_outcomes' = Append(rt_outcomes, o)
        /\ IF o = "ok" THEN rt_pc' = "returned" /\ UNCHANGED rt_delays
           ELSE IF o = "other" THEN rt_pc' = "raised" /\ UNCHANGED rt_delays
           ELSE IF rt_attempt < rt_cfg.max_retries
                THEN /\ rt_pc' = "sleep"
                     /\ rt_delays' = Append(rt_delays, RetryDelay(rt_cfg, rt_attempt))
                ELSE rt_pc' = "exhausted" /\ UNCHANGED rt_delays
    /\ UNCHANGED <<rt_cfg, rt_attempt>>

\* retry.py 61, 44: the sleep ends and the loop takes its next turn
SleepDone ==
    /\ rt_pc = "sleep"
    /\ rt_attempt' = rt_attempt + 1
    /\ rt_pc' = "call"
    /\ UNCHANGED <<rt_cfg, rt_outcomes, rt_delays>>

RetryNext == Attempt \/ SleepDone

-----------------------------------------------------------------------------
(* The graph of the LangGraph agent, services/agent.py 67-401: its nodes    *)
(* and edges, with the state fields that assess_quality reads.  Lists are    *)
(* kept by their length, filtered_opinions by len().                         *)

VARIABLES
    ag_node,        \* the node to run next: "search", "read", "filter",
                    \* "broaden", "synthesize", "enrich", "END"
    ag_state,       \* search_results, search_attempts, articles, filtered_opinions
    ag_broadened    \* how often broaden_search has run

agentVars == <<ag_node, ag_state, ag_broadened>>

\* initial_state of run_agent_pipeline, agent.py 425-442
InitialState == [search_results |-> 0, search_attempts |-> 0, articles |-> 0,
                 filtered_opinions |-> 0]

AgentIdle == ag_node = "idle" /\ ag_state = InitialState /\ ag_broadened = 0

AgentInit == ag_node = "search" /\ ag_state = InitialState /\ ag_broadened = 0

\* sampled len(filtered_opinions) around the threshold of assess_quality
FilteredLens == {41, 500, 501}

\* counters stay in 0..MaxAttempts
Incr(n) == MinOf(n + 1, MaxAttempts)

\* agent.py 235-249
AssessQualityContentOnly(state) ==
    IF state.filtered_opinions > 500 /\ state.articles >= 3
    THEN "sufficient" ELSE "broaden"

AssessQuality(state) ==
    IF state.search_attempts >= 2 THEN "sufficient"
    ELSE IF state.filtered_opinions > 500 /\ state.articles >= 3 THEN "sufficient"
    ELSE "broaden"

\* agent.py 67-114, edge search -> read
SearchSources ==
    /\ ag_node = "search"
    /\ \E n \in 0..MaxResults :
          ag_state' = [ag_state EXCEPT !.search_results = n,
                                       !.search_attempts = Incr(@)]
    /\ ag_node' = "read"
    /\ UNCHANGED ag_broadened

\* agent.py 117-144, edge read -> filter: no article without results, else
\* what was read, or the joined snippets when nothing was read
ReadArticles ==
    /\ ag_node = "read"
    /\ IF ag_state.search_results = 0
       THEN ag_state' = [ag_state EXCEPT !.articles = 0]
       ELSE \E n \in 1..ag_state.search_results :
               ag_state' = [ag_state EXCEPT !.articles = n]
    /\ ag_node' = "filter"
    /\ UNCHANGED ag_broadened

\* agent.py 147-232 and the conditional edge 388-395
FilterOpinions ==
    /\ ag_node = "filter"
    /\ \E len \in FilteredLens :
        LET state == [ag_state EXCEPT !.filtered_opinions = len]
        IN /\ ag_state' = state
           /\ ag_node' = IF AssessQuality(state) = "sufficient" THEN "synthesize"
                         ELSE "broaden"
    /\ UNCHANGED ag_broadened

\* agent.py 252-279, edge broaden -> read
BroadenSearch ==
    /\ ag_node = "broaden"
    /\ \E n \in ag_state.search_results..MaxResults :
          ag_state' = [ag_state EXCEPT !.search_results = n,
                                       !.search_attempts = Incr(@)]
    /\ ag_broadened' = Incr(ag_broadened)
    /\ ag_node' = "read"

\* agent.py 282-315, edge synthesize -> enrich
Synthesize ==
    /\ ag_node = "synthesize"
    /\ ag_node' = "enrich"
    /\ UNCHANGED <<ag_state, ag_broadened>>

\* agent.py 318-364, edge enrich -> END
EnrichData ==
    /\ ag_node = "enrich"
    /\ ag_node' = "END"
    /\ UNCHANGED <<ag_state, ag_broadened>>

AgentGraphNext ==
    \/ SearchSources \/ ReadArticles \/ FilterOpinions
    \/ BroadenSearch \/ Synthesize \/ EnrichData

-----------------------------------------------------------------------------
(* sanitize_text, services/llm.py 32-45, on strings as sequences of          *)
(* characters; a character is written by its name                            *)

VARIABLES
    st_text,        \* the argument
    st_pc,          \* "input", "once", "twice"
    st_once,        \* sanitize_text(text)
    st_twice        \* sanitize_text(sanitize_text(text))

sanitizeVars == <<st_text, st_pc, st_once, st_twice>>

SanitizeIdle == st_text = <<>> /\ st_pc = "idle" /\ st_once = <<>> /\ st_twice = <<>>

\* sampled characters: the quotes, the backslash, two kinds of whitespace and
\* a letter
TextChars == {"dquote", "squote", "backslash", "space", "tab", "a"}

Texts == UNION {[1..n -> TextChars] : n \in 0..MaxText}

SanitizeInit ==
    /\ st_text \in Texts
    /\ st_pc = "input" /\ st_once = <<>> /\ st_twice = <<>>

QuoteChars == {"dquote", "squote", "backtick"}

Whitespace == {"space", "tab"}

\* str.strip(chars) for a set of characters
RECURSIVE StripLeft(_, _)
StripLeft(t, chars) ==
    IF t # <<>> /\ Head(t) \in chars THEN StripLeft(Tail(t), chars) ELSE t

RECURSIVE StripRight(_, _)
StripRight(t, chars) ==
    IF t # <<>> /\ t[Len(t)] \in chars THEN StripRight(SubSeq(t, 1, Len(t) - 1), chars)
    ELSE t

StripChars(t, chars) == StripRight(StripLeft(t, chars), chars)

\* llm.py 39: the two calls of str.replace, a backslash followed by the quote
\* q becomes q, scanning from the left
RECURSIVE ReplaceEscaped(_, _)
ReplaceEscaped(t, q) ==
    IF t = <<>> THEN <<>>
    ELSE IF Len(t) >= 2 /\ t[1] = "backslash" /\ t[2] = q
         THEN <<q>> \o ReplaceEscaped(SubSeq(t, 3, Len(t)), q)
         ELSE <<Head(t)>> \o ReplaceEscaped(Tail(t), q)

\* llm.py 42-43
RECURSIVE StripQuotes(_)
StripQuotes(t) ==
    IF t # <<>> /\ (t[1] \in QuoteChars \/ t[Len(t)] \in QuoteChars)
    THEN StripQuotes(StripChars(t, {"space"} \cup QuoteChars))
    ELSE t

\* llm.py 32-45
sanitize_text(text) ==
    IF text = <<>> THEN <<>>
    ELSE LET stripped == StripChars(text, Whitespace)
             unescaped == ReplaceEscaped(ReplaceEscaped(stripped, "dquote"), "squote")
         IN StripChars(StripQuotes(unescaped), Whitespace)

SanitizeOnce ==
    /\ st_pc = "input"
    /\ st_once' = sanitize_text(st_text)
    /\ st_pc' = "once"
    /\ UNCHANGED <<st_text, st_twice>>

SanitizeAgain ==
    /\ st_pc = "once"
    /\ st_twice' = sanitize_text(st_once)
    /\ st_pc' = "twice"
    /\ UNCHANGED <<st_text, st_once>>

SanitizeNext == SanitizeOnce \/ SanitizeAgain

-----------------------------------------------------------------------------
(* Specifications *)

restVars == <<raceVars, jinaVars, confVars, freshVars, schemaVars, relVars, sweepVars, serperVars, selectVars, corpusVars, labelVars, retryVars, agentVars, sanitizeVars>>

vars == <<synthVars, runVars, movieVars, restVars>>

RestIdle == RaceIdle /\ JinaIdle /\ ConfIdle /\ FreshIdle /\ SchemaIdle /\ RelIdle /\ SweepIdle /\ SerperIdle /\ SelectIdle /\ CorpusIdle /\ LabelIdle /\ RetryIdle /\ AgentIdle /\ SanitizeIdle

Init == RunInit /\ MovieInit /\ RestIdle

Spec == Init /\ [][RunNext /\ UNCHANGED <<synthVars, movieVars, restVars>>]_vars

RunIdle ==
    /\ USE_LANGGRAPH = FALSE /\ providers = {} /\ movie = Movie(None, None) /\ db_reviews = <<>>
    /\ session_review = NoRow /\ session_new = <<>> /\ session_dirty = {}
    /\ pc = "idle" /\ imdb = NoOmdb /\ confidence_stats = NoStats
    /\ llm_output = DegradedOutput /\ outcome = "none" /\ job_progress = Absent

SynthIdle ==
    /\ fallback_client = TRUE /\ s_pc = "idle" /\ content = NoContent
    /\ calls = <<>> /\ s_result = NoResult

MovieSpecInit == MovieInit /\ RunIdle /\ SynthIdle /\ RestIdle

PolicySpecInit == PolicyInit /\ MovieInit /\ RestIdle

SpecPolicy == PolicySpecInit /\ [][PolicyNext /\ UNCHANGED <<synthVars, movieVars, restVars>>]_vars

SpecMovie ==
    MovieSpecInit /\ [][MovieNext /\ UNCHANGED <<synthVars, runVars, restVars>>]_vars

SynthSpecInit ==
    /\ SynthInit
    /\ MovieInit
    /\ RestIdle
    /\ USE_LANGGRAPH = FALSE /\ providers = {} /\ movie = Movie(None, None) /\ db_reviews = <<>>
    /\ session_review = NoRow /\ session_new = <<>> /\ session_dirty = {}
    /\ pc = "synth" /\ imdb = NoOmdb /\ confidence_stats = NoStats
    /\ llm_output = DegradedOutput /\ outcome = "none" /\ job_progress = Absent

SpecSynth == SynthSpecInit /\ [][SynthNext /\ UNCHANGED <<runVars, movieVars, restVars>>]_vars

\* two runs for one title, on either route
RaceSpecInit ==
    /\ RaceIdle
    /\ USE_LANGGRAPH \in BOOLEAN /\ providers = SearchBranches
    /\ movie = Movie(86, 12000) /\ db_reviews = <<>>
    /\ session_review = NoRow /\ session_new = <<>> /\ session_dirty = {}
    /\ pc = "idle" /\ imdb = NoOmdb /\ confidence_stats = NoStats
    /\ llm_output = DegradedOutput /\ outcome = "none" /\ job_progress = Absent
    /\ SynthIdle
    /\ MovieInit
    /\ JinaIdle
    /\ ConfIdle
    /\ FreshIdle
    /\ SchemaIdle
    /\ RelIdle
    /\ SweepIdle
    /\ SerperIdle
    /\ SelectIdle
    /\ CorpusIdle
    /\ LabelIdle
    /\ RetryIdle
    /\ AgentIdle
    /\ SanitizeIdle

SpecRace ==
    RaceSpecInit
    /\ [][RaceNext /\ UNCHANGED <<synthVars, runVars, movieVars, jinaVars, confVars, freshVars, schemaVars, relVars, sweepVars, serperVars, selectVars, corpusVars, labelVars, retryVars, agentVars, sanitizeVars>>]_vars

JinaSpecInit ==
    JinaInit /\ RunIdle /\ SynthIdle /\ MovieInit /\ RaceIdle /\ ConfIdle /\ FreshIdle /\ SchemaIdle /\ RelIdle /\ SweepIdle /\ SerperIdle /\ SelectIdle /\ CorpusIdle /\ LabelIdle /\ RetryIdle /\ AgentIdle /\ SanitizeIdle

SpecJina ==
    JinaSpecInit
    /\ [][JinaNext /\ UNCHANGED <<synthVars, runVars, movieVars, raceVars, confVars, freshVars, schemaVars, relVars, sweepVars, serperVars, selectVars, corpusVars, labelVars, retryVars, agentVars, sanitizeVars>>]_vars

JinaPairSpecInit ==
    JinaPairInit /\ RunIdle /\ SynthIdle /\ MovieInit /\ RaceIdle /\ ConfIdle /\ FreshIdle /\ SchemaIdle /\ RelIdle /\ SweepIdle /\ SerperIdle /\ SelectIdle /\ CorpusIdle /\ LabelIdle /\ RetryIdle /\ AgentIdle /\ SanitizeIdle

SpecJinaPair ==
    JinaPairSpecInit
    /\ [][JinaNext /\ UNCHANGED <<synthVars, runVars, movieVars, raceVars, confVars, freshVars, schemaVars, relVars, sweepVars, serperVars, selectVars, corpusVars, labelVars, retryVars, agentVars, sanitizeVars>>]_vars

ConfSpecInit ==
    ConfInit /\ RunIdle /\ SynthIdle /\ MovieInit /\ RaceIdle /\ JinaIdle /\ FreshIdle /\ SchemaIdle /\ RelIdle /\ SweepIdle /\ SerperIdle /\ SelectIdle /\ CorpusIdle /\ LabelIdle /\ RetryIdle /\ AgentIdle /\ SanitizeIdle

SpecConf ==
    ConfSpecInit
    /\ [][ConfNext /\ UNCHANGED <<synthVars, runVars, movieVars, raceVars, jinaVars, freshVars, schemaVars, relVars, sweepVars, serperVars, selectVars, corpusVars, labelVars, retryVars, agentVars, sanitizeVars>>]_vars

FreshSpecInit ==
    FreshInit /\ RunIdle /\ SynthIdle /\ MovieInit /\ RaceIdle /\ JinaIdle /\ ConfIdle /\ SchemaIdle /\ RelIdle /\ SweepIdle /\ SerperIdle /\ SelectIdle /\ CorpusIdle /\ LabelIdle /\ RetryIdle /\ AgentIdle /\ SanitizeIdle

SpecFresh ==
    FreshSpecInit
    /\ [][FreshNext /\ UNCHANGED <<synthVars, runVars, movieVars, raceVars, jinaVars, confVars, schemaVars, relVars, sweepVars, serperVars, selectVars, corpusVars, labelVars, retryVars, agentVars, sanitizeVars>>]_vars

SchemaSpecInit ==
    SchemaInit /\ RunIdle /\ SynthIdle /\ MovieInit /\ RaceIdle /\ JinaIdle /\ ConfIdle /\ FreshIdle /\ RelIdle /\ SweepIdle /\ SerperIdle /\ SelectIdle /\ CorpusIdle /\ LabelIdle /\ RetryIdle /\ AgentIdle /\ SanitizeIdle

SpecSchema ==
    SchemaSpecInit
    /\ [][SchemaNext /\ UNCHANGED <<synthVars, runVars, movieVars, raceVars, jinaVars, confVars,
                                    freshVars, relVars, sweepVars, serperVars, selectVars, corpusVars, labelVars, retryVars, agentVars, sanitizeVars>>]_vars

RelSpecInit ==
    RelInit /\ RunIdle /\ SynthIdle /\ MovieInit /\ RaceIdle /\ JinaIdle /\ ConfIdle /\ FreshIdle /\ SchemaIdle /\ SweepIdle /\ SerperIdle /\ SelectIdle /\ CorpusIdle /\ LabelIdle /\ RetryIdle /\ AgentIdle /\ SanitizeIdle

SpecRel ==
    RelSpecInit
    /\ [][RelNext /\ UNCHANGED <<synthVars, runVars, movieVars, raceVars, jinaVars, confVars,
                                 freshVars, schemaVars, sweepVars, serperVars, selectVars, corpusVars, labelVars, retryVars, agentVars, sanitizeVars>>]_vars

SweepSpecInit ==
    SweepInit /\ RunIdle /\ SynthIdle /\ MovieInit /\ RaceIdle /\ JinaIdle /\ ConfIdle /\ FreshIdle /\ SchemaIdle /\ RelIdle /\ SerperIdle /\ SelectIdle /\ CorpusIdle /\ LabelIdle /\ RetryIdle /\ AgentIdle /\ SanitizeIdle

SpecSweep ==
    SweepSpecInit
    /\ [][SweepNext /\ UNCHANGED <<synthVars, runVars, movieVars, raceVars, jinaVars, confVars,
                                   freshVars, schemaVars, relVars, serperVars, selectVars, corpusVars, labelVars, retryVars, agentVars, sanitizeVars>>]_vars

SerperSpecInit ==
    SerperInit /\ RunIdle /\ SynthIdle /\ MovieInit /\ RaceIdle /\ JinaIdle /\ ConfIdle /\ FreshIdle /\ SchemaIdle /\ RelIdle /\ SweepIdle /\ SelectIdle /\ CorpusIdle /\ LabelIdle /\ RetryIdle /\ AgentIdle /\ SanitizeIdle

SpecSerper ==
    SerperSpecInit
    /\ [][SerperNext /\ UNCHANGED <<synthVars, runVars, movieVars, raceVars, jinaVars, confVars,
                                    freshVars, schemaVars, relVars, sweepVars, selectVars, corpusVars, labelVars, retryVars, agentVars, sanitizeVars>>]_vars

SelectSpecInit ==
    SelectInit /\ RunIdle /\ SynthIdle /\ MovieInit /\ RaceIdle /\ JinaIdle /\ ConfIdle /\ FreshIdle /\ SchemaIdle /\ RelIdle /\ SweepIdle /\ SerperIdle /\ CorpusIdle /\ LabelIdle /\ RetryIdle /\ AgentIdle /\ SanitizeIdle

SpecSelect ==
    SelectSpecInit
    /\ [][SelectNext /\ UNCHANGED <<synthVars, runVars, movieVars, raceVars, jinaVars, confVars,
                                    freshVars, schemaVars, relVars, sweepVars, serperVars, corpusVars, labelVars, retryVars, agentVars, sanitizeVars>>]_vars

CorpusSpecInit ==
    CorpusInit /\ RunIdle /\ SynthIdle /\ MovieInit /\ RaceIdle /\ JinaIdle /\ ConfIdle /\ FreshIdle /\ SchemaIdle /\ RelIdle /\ SweepIdle /\ SerperIdle /\ SelectIdle /\ LabelIdle /\ RetryIdle /\ AgentIdle /\ SanitizeIdle

SpecCorpus ==
    CorpusSpecInit
    /\ [][CorpusNext /\ UNCHANGED <<synthVars, runVars, movieVars, raceVars, jinaVars, confVars,
                                    freshVars, schemaVars, relVars, sweepVars, serperVars,
                                    selectVars, labelVars, retryVars, agentVars, sanitizeVars>>]_vars

LabelSpecInit ==
    LabelInit /\ RunIdle /\ SynthIdle /\ MovieInit /\ RaceIdle /\ JinaIdle /\ ConfIdle /\ FreshIdle /\ SchemaIdle /\ RelIdle /\ SweepIdle /\ SerperIdle /\ SelectIdle /\ CorpusIdle /\ RetryIdle /\ AgentIdle /\ SanitizeIdle

SpecLabel ==
    LabelSpecInit
    /\ [][LabelNext /\ UNCHANGED <<synthVars, runVars, movieVars, raceVars, jinaVars, confVars,
                                   freshVars, schemaVars, relVars, sweepVars, serperVars,
                                   selectVars, corpusVars, retryVars, agentVars, sanitizeVars>>]_vars

RetrySpecInit ==
    RetryInit /\ RunIdle /\ SynthIdle /\ MovieInit /\ RaceIdle /\ JinaIdle /\ ConfIdle /\ FreshIdle /\ SchemaIdle /\ RelIdle /\ SweepIdle /\ SerperIdle /\ SelectIdle /\ CorpusIdle /\ LabelIdle /\ AgentIdle /\ SanitizeIdle

SpecRetry ==
    RetrySpecInit
    /\ [][RetryNext /\ UNCHANGED <<synthVars, runVars, movieVars, raceVars, jinaVars, confVars,
                                   freshVars, schemaVars, relVars, sweepVars, serperVars,
                                   selectVars, corpusVars, labelVars, agentVars, sanitizeVars>>]_vars

AgentSpecInit ==
    AgentInit /\ RunIdle /\ SynthIdle /\ MovieInit /\ RaceIdle /\ JinaIdle /\ ConfIdle /\ FreshIdle /\ SchemaIdle /\ RelIdle /\ SweepIdle /\ SerperIdle /\ SelectIdle /\ CorpusIdle /\ LabelIdle /\ RetryIdle /\ SanitizeIdle

\* ainvoke runs the graph node after node (agent.py 444): a node that can run
\* does run
SpecAgent ==
    AgentSpecInit
    /\ [][AgentGraphNext /\ UNCHANGED <<synthVars, runVars, movieVars, raceVars, jinaVars, confVars,
                                        freshVars, schemaVars, relVars, sweepVars, serperVars,
                                        selectVars, corpusVars, labelVars, retryVars, sanitizeVars>>]_vars
    /\ WF_agentVars(AgentGraphNext)

SanitizeSpecInit ==
    SanitizeInit /\ RunIdle /\ SynthIdle /\ MovieInit /\ RaceIdle /\ JinaIdle /\ ConfIdle /\ FreshIdle /\ SchemaIdle /\ RelIdle /\ SweepIdle /\ SerperIdle /\ SelectIdle /\ CorpusIdle /\ LabelIdle /\ RetryIdle /\ AgentIdle

SpecSanitize ==
    SanitizeSpecInit
    /\ [][SanitizeNext /\ UNCHANGED <<synthVars, runVars, movieVars, raceVars, jinaVars, confVars,
                                      freshVars, schemaVars, relVars, sweepVars, serperVars,
                                      selectVars, corpusVars, labelVars, retryVars,
                                      agentVars>>]_vars

-----------------------------------------------------------------------------
(* Properties *)

\* C1: a run in which only search/fetch failures, an empty search or failing
\* provider calls occur returns a Review and raises nothing to its caller.
C1_RunReturnsReview == pc = "finished" => outcome = "returned"

\* C2: synthesize_review returns an LLMReviewOutput and never raises, whatever
\* the primary, secondary and knowledge-only calls do.
C2_SynthesizeNeverRaises ==
    /\ ~s_result.raised
    /\ s_pc = "returned" => s_result.returned /\ s_result.out \in LLMReviewOutput

C2_Witness ==
    /\ s_pc = "returned"
    /\ Len(calls) = 3
    /\ calls[1].outcome = "exception"
    /\ calls[2].outcome = "exception"
    /\ calls[3].outcome = "badschema"

\* C3: whenever the primary call fails technically (exception or timeout,
\* unparseable or schema-violating response), exactly one call to the
\* secondary provider follows it, with the same prompt, before anything else.
TechnicalFailures == {"exception", "nonjson", "badschema"}

C3_RetryOnceOnSecondary ==
    (s_pc = "returned" /\ calls[1].outcome \in TechnicalFailures) =>
        /\ Len(calls) >= 2
        /\ calls[2].provider = "secondary"
        /\ calls[2].prompt = calls[1].prompt
        /\ Cardinality({i \in 1..Len(calls) : calls[i].provider = "secondary"}) = 1

\* C4: every Review the run writes for a title whose override score is below
\* 5.0 with more than 200 votes has verdict NOT WORTH IT, on every route:
\* each step that assigns the verdict of the Review row, or adds a row,
\* writes NOT WORTH IT.
FloorTitle == override_score # None /\ override_score < 50 /\ override_votes > 200

C5_Rule1Promotion ==
    [][(pc = "sanity" /\ override_score # None /\ override_score > 75
        /\ override_votes > 500 /\ llm_output.verdict # "WORTH IT") =>
          (llm_output'.verdict = "WORTH IT" <=>
              (llm_output.criticism_points <= llm_output.praise_points
               /\ llm_output.positive_pct >= 45))]_vars

C7_LowConfidenceNeverWorthIt ==
    (pc = "cache" /\ confidence_stats.confidence_tier = "LOW"
     /\ confidence_stats.articles_read < 3)
        => llm_output.verdict # "WORTH IT"

\* a LOW-confidence run on which rule 1 applies without a block: the verdict
\* was WORTH IT after rule 1 and the last rule took it back
C7_Witness ==
    /\ pc = "cache" /\ confidence_stats.confidence_tier = "LOW"
    /\ confidence_stats.articles_read < 3
    /\ override_score > 75 /\ override_votes > 500
    /\ llm_output.criticism_points <= llm_output.praise_points
    /\ llm_output.positive_pct >= 45
    /\ llm_output.verdict = "MIXED BAG"

C9_UpdateInPlace ==
    (pc = "finished" /\ Len(db_reviews) >= 1) =>
        /\ outcome = "returned"
        /\ Len(db_reviews) = 1

\* C10: with two get_or_create_movie calls for one new tmdb_id, once both
\* transactions have ended exactly one movies row exists and both calls
\* returned it; the duplicate-key failure is not raised to a caller.
NoOutsideFailure == \A s \in Sessions : gm_error[s] \notin {"TMDBError", "OperationalError"}

BothClosed == \A s \in Sessions : gm_pc[s] = "closed"

OneRowReturnedByBoth ==
    /\ Cardinality(db_movies) = 1
    /\ \A s \in Sessions : gm_error[s] = "none" /\ gm_movie[s] \in db_movies

InsertersCommit == \A s \in Sessions : gm_movie[s] = s => gm_end[s] = "commit"

C13_FallbackOnlyWithoutResults == pc = "fallback" => providers = {}

\* C14: a run whose merged result set is empty stores a new Review with
\* sources_count = 0 and confidence LOW and returns it.
C14_FallbackReviewStored ==
    [][pc = "fallback" =>
          /\ outcome' = "returned"
          /\ Len(session_new') = Len(session_new) + 1
          /\ session_new'[Len(session_new')].sources_count = 0
          /\ session_new'[Len(session_new')].confidence = "LOW"]_vars

\* C11: when two runs for one title without a Review interleave, afterwards
\* the title has exactly one Review and both runs returned.
C11_BenignRace ==
    (\A s \in Sessions : rc_pc[s] = "finished") =>
        /\ Cardinality(rc_reviews) = 1
        /\ \A s \in Sessions : rc_outcome[s] = "returned"

\* C12: in a batch whose test URL failed, no GET goes to old.reddit.com for
\* any other Reddit URL of the batch, and every URL of urls[1:] is handled by
\* the Google-cache task (_cache_reddit): waiting for it, asking the cache,
\* answered by it, or skipped by its rate-limit flag.
C12_FailedTestRoutesAllToCache ==
    \A b \in Batches :
        j_task[b][1] = "failed" =>
            /\ j_direct[b] = {1}
            /\ j_pc[b] \in {"cache", "done"}
            /\ \A u \in Remaining(b) :
                /\ j_task[b][u] \in {"waiting", "cache", "cache_ok", "cache_failed", "cache_skipped"}
                /\ j_pc[b] = "done" => TaskDone(b, u)

C12_Witness ==
    /\ j_pc[1] = "done" /\ j_task[1][1] = "failed" /\ j_n[1] = MaxUrls
    /\ j_direct[1] = {1}
    /\ \E u \in Remaining(1) : j_task[1][u] = "cache_ok"
    /\ \E u \in Remaining(1) : j_task[1][u] = "cache_skipped"

\* C15: the score returned by calculate_confidence is the sum of the four
\* capped factor values (articles read: >=8 25, >=5 15, >=3 8, else 0;
\* community sources: >=3 30, >=1 15, else 0; corpus characters: >=15000 25,
\* >=8000 15, >=3000 8, else 0; age in days: >365 20, >90 15, >30 8, else 0,
\* unknown 10), lies within 0..100, and the tier is HIGH iff score >= 70,
\* MEDIUM iff 40 <= score < 70, LOW otherwise.
C15_ScoreIsSumOfFactors ==
    cf_stats # NoConfidence =>
        LET a == cf_args.articles_read
            r == cf_args.reddit_count
            c == cf_args.chars
            d == cf_args.days_old
            fa == CASE a >= 8 -> 25 [] a >= 5 /\ a < 8 -> 15 [] a >= 3 /\ a < 5 -> 8 [] OTHER -> 0
            fr == CASE r >= 3 -> 30 [] r >= 1 /\ r < 3 -> 15 [] OTHER -> 0
            fc == CASE c >= 15000 -> 25 [] c >= 8000 /\ c < 15000 -> 15
                    [] c >= 3000 /\ c < 8000 -> 8 [] OTHER -> 0
            fd == CASE d = None -> 10 [] d # None /\ d > 365 -> 20
                    [] d # None /\ d > 90 /\ d <= 365 -> 15
                    [] d # None /\ d > 30 /\ d <= 90 -> 8 [] OTHER -> 0
            score == cf_stats.confidence_score
            tier == cf_stats.confidence_tier
        IN /\ score = fa + fr + fc + fd
           /\ score \in 0..100
           /\ tier = "HIGH" <=> score >= 70
           /\ tier = "MEDIUM" <=> (score >= 40 /\ score < 70)
           /\ tier = "LOW" <=> score < 40

\* 9 articles, 4 community sources, 16,000 characters, released 400 days ago
C15_Witness ==
    /\ cf_args = ConfArgs(9, 4, 16000, 400)
    /\ cf_stats = [confidence_score |-> 100, confidence_tier |-> "HIGH"]

\* C16: with the other three arguments held fixed, raising articles read,
\* the community source count, the opinion character volume or the age in
\* days never lowers the score returned by calculate_confidence.
C16_ScoreMonotonic ==
    cf_stats # NoConfidence =>
        LET a == cf_args.articles_read
            r == cf_args.reddit_count
            c == cf_args.chars
            d == cf_args.days_old
            score == cf_stats.confidence_score
        IN /\ \A a2 \in ReadCounts :
                a2 >= a => ConfidenceOf(ConfArgs(a2, r, c, d)).confidence_score >= score
           /\ \A r2 \in RedditSources :
                r2 >= r => ConfidenceOf(ConfArgs(a, r2, c, d)).confidence_score >= score
           /\ \A c2 \in CharSamples :
                c2 >= c => ConfidenceOf(ConfArgs(a, r, c2, d)).confidence_score >= score
           /\ \A d2 \in DaySamples :
                (d # None /\ d2 >= d) =>
                    ConfidenceOf(ConfArgs(a, r, c, d2)).confidence_score >= score

\* a call whose score rises strictly with each of the four arguments
C16_Witness ==
    /\ cf_args = ConfArgs(4, 1, 7999, 90)
    /\ cf_stats.confidence_score = 8 + 15 + 8 + 8
    /\ ConfidenceOf(ConfArgs(5, 1, 7999, 90)).confidence_score > cf_stats.confidence_score
    /\ ConfidenceOf(ConfArgs(4, 3, 7999, 90)).confidence_score > cf_stats.confidence_score
    /\ ConfidenceOf(ConfArgs(4, 1, 8000, 90)).confidence_score > cf_stats.confidence_score
    /\ ConfidenceOf(ConfArgs(4, 1, 7999, 91)).confidence_score > cf_stats.confidence_score

\* C17 as stated: the TTL is 6 hours for an unreleased title, 12 for 0-7
\* days since release, 48 for 8-30, 168 for 31-90, and a Review is stale
\* exactly when its age exceeds that TTL.
C17_StaleIffAgeExceedsTtl ==
    (fr_out.called /\ fr_args.days_since_release # None /\ fr_args.age_hours # None) =>
        LET d == fr_args.days_since_release
        IN /\ d < 0 => fr_out.ttl_hours = 6
           /\ d \in 0..7 => fr_out.ttl_hours = 12
           /\ d \in 8..30 => fr_out.ttl_hours = 48
           /\ d \in 31..90 => fr_out.ttl_hours = 168
           /\ ~fr_out.fresh <=> fr_args.age_hours > fr_out.ttl_hours

\* C17: the TTL is 6 hours for an unreleased title, 12 for 0-7 days since
\* release, 48 for 8-30, 168 for 31-90, and a Review is stale exactly when
\* its age has reached that TTL (age >= TTL); a Review for a title released
\* 5 days ago and generated 30 hours ago is stale.
C17_StaleIffAgeReachesTtl ==
    (fr_out.called /\ fr_args.days_since_release # None /\ fr_args.age_hours # None) =>
        LET d == fr_args.days_since_release
        IN /\ d < 0 => fr_out.ttl_hours = 6
           /\ d \in 0..7 => fr_out.ttl_hours = 12
           /\ d \in 8..30 => fr_out.ttl_hours = 48
           /\ d \in 31..90 => fr_out.ttl_hours = 168
           /\ ~fr_out.fresh <=> fr_args.age_hours >= fr_out.ttl_hours
           /\ (d = 5 /\ fr_args.age_hours = 30) => ~fr_out.fresh

\* released 5 days ago, generated 30 hours ago
C17_Witness ==
    /\ fr_args = FreshArgs(5, 30)
    /\ fr_out.called /\ fr_out.ttl_hours = 12 /\ ~fr_out.fresh

\* C18: a Review of a title released more than 90 days ago is never stale,
\* whatever its age: is_review_fresh returns true for it and smart_refresh
\* does not select it.
C18_OldTitleNeverStale ==
    (fr_out.called /\ fr_args.days_since_release # None /\ fr_args.days_since_release > 90) =>
        /\ fr_out.fresh
        /\ ~fr_out.needs_refresh

\* C19: smart_refresh selects a Review exactly when it is stale under the TTL
\* rule, so its test and is_review_fresh agree on every pair of release age
\* and review age.
C19_SweepAgreesWithTtl ==
    (fr_out.called /\ fr_args.days_since_release # None /\ fr_args.age_hours # None) =>
        /\ fr_out.needs_refresh <=> ~fr_out.fresh
        /\ fr_out.needs_refresh <=> fr_args.age_hours > fr_out.ttl_hours

C21_KeyAbsentAtTermination == pc = "finished" => job_progress = Absent

\* C22: on every LLMReviewOutput accepted from the provider, whenever
\* positive_pct, negative_pct and mixed_pct are all present they sum to
\* exactly 100.
C22_SentimentSumsTo100 ==
    (sc_out.accepted /\ sc_out.positive_pct # None /\ sc_out.negative_pct # None
                     /\ sc_out.mixed_pct # None) =>
        sc_out.positive_pct + sc_out.negative_pct + sc_out.mixed_pct = 100

\* C23: the verdict of the output in hand and of every Review row written or
\* stored is one of WORTH IT, NOT WORTH IT, MIXED BAG, before and after every
\* rule of the Verdict Policy Engine.
C23_VerdictEnumerated ==
    /\ llm_output.verdict \in Verdicts
    /\ session_review # NoRow => session_review.verdict \in Verdicts
    /\ \A i \in 1..Len(session_new) : session_new[i].verdict \in Verdicts
    /\ \A i \in 1..Len(db_reviews) : db_reviews[i].verdict \in Verdicts

\* a rule of the engine has replaced the verdict and the new one has been
\* assigned to the title's Review row
C23_Witness ==
    /\ pc = "caller"
    /\ session_review # NoRow /\ "verdict" \in session_dirty
    /\ session_review.verdict = "NOT WORTH IT"
    /\ override_score # None /\ override_score < 50 /\ override_votes > 200

C25_ShortTitleMatcher ==
    LET tl == Strip(Lower(rl_title))
        Conjunctions == {<<"o", "f">>, <<"a", "n", "d">>, <<"i", "n">>, <<"t", "h", "e">>,
                         <<"f", "o", "r">>, <<"w", "i", "t", "h">>, <<"f", "r", "o", "m">>}
        FollowedBy(t, e, w) ==
            \E q \in (e + 1)..Len(t) :
                /\ \A k \in (e + 1)..(q - 1) : t[k] = " "
                /\ OccursAt(w, t, q)
                /\ (q + Len(w) > Len(t) \/ t[q + Len(w)] = " ")
        GoodOccurrence(t) ==
            \E i \in 1..Len(t) :
                /\ OccursAt(tl, t, i)
                /\ WordBoundary(t, i - 1) /\ WordBoundary(t, i + Len(tl) - 1)
                /\ \A w \in Conjunctions : ~FollowedBy(t, i + Len(tl) - 1, w)
        Only(headline) == rl_result = SearchResult(headline, <<>>, <<>>)
    IN (rl_out.called /\ Len(tl) <= 3) =>
        /\ rl_out.match =>
              (GoodOccurrence(Lower(rl_result.title)) \/ GoodOccurrence(Lower(rl_result.snippet)))
        /\ (rl_title = Str_Up /\ Only(Str_UpReview)) => rl_out.match
        /\ (rl_title = Str_Up /\ Only(Str_UpInTheAir)) => ~rl_out.match
        /\ (rl_title = Str_Up /\ Only(Str_CoverUp)) => ~rl_out.match

\* C26: synthesize_review calls the providers only in the order primary,
\* secondary, knowledge-only, makes a later call only after every earlier
\* call raised or returned no content, makes at most three calls, and
\* returns the static degraded result only after the knowledge-only call
\* has raised.
C26_CallOrder ==
    /\ [](LET Rank(c) == CASE c.provider = "primary" -> 1 [] c.provider = "secondary" -> 2
                           [] c.provider = "knowledge" -> 3
              n == Len(calls)
          IN /\ n <= 3
             /\ \A i, j \in 1..n :
                    i < j => /\ Rank(calls[i]) < Rank(calls[j])
                             /\ calls[i].outcome \in {"exception", "none"}
             /\ n >= 1 => calls[1].provider = "primary")
    /\ [][(s_pc = "tier2" /\ s_result'.returned) =>
             /\ calls'[Len(calls')].provider = "knowledge"
             /\ calls'[Len(calls')].outcome = "exception"
             /\ s_result'.out = DegradedOutput]_vars

\* primary and secondary raise, the knowledge-only call raises too, and the
\* static result is returned
C26_Witness ==
    /\ s_pc = "returned" /\ s_result.returned /\ s_result.out = DegradedOutput
    /\ Len(calls) = 3
    /\ calls[1].provider = "primary" /\ calls[1].outcome = "exception"
    /\ calls[2].provider = "secondary" /\ calls[2].outcome = "exception"
    /\ calls[3].provider = "knowledge" /\ calls[3].outcome = "exception"

\* C27: the vote-count override never lowers the tier or the score that
\* calculate_confidence returned, and after it HIGH implies score >= 70,
\* MEDIUM implies 40 <= score < 70, LOW implies score < 40.
C27_OverrideKeepsTierAndScoreAligned ==
    cf_final # NoConfidence =>
        LET TierRank(t) == CASE t = "LOW" -> 1 [] t = "MEDIUM" -> 2 [] t = "HIGH" -> 3
            score == cf_final.confidence_score
            tier == cf_final.confidence_tier
        IN /\ TierRank(tier) >= TierRank(cf_stats.confidence_tier)
           /\ score >= cf_stats.confidence_score
           /\ tier = "HIGH" => score >= 70
           /\ tier = "MEDIUM" => (score >= 40 /\ score < 70)
           /\ tier = "LOW" => score < 40
           /\ tier = ConfidenceOverride(cf_stats.confidence_tier, OrZero(cf_votes))

\* a LOW result of the scorer lifted to HIGH by more than 1000 votes
C27_Witness ==
    /\ cf_final # NoConfidence
    /\ cf_stats.confidence_tier = "LOW" /\ cf_stats.confidence_score < 40
    /\ cf_votes = 1001
    /\ cf_final.confidence_tier = "HIGH" /\ cf_final.confidence_score = 75

\* C28: one smart_refresh run calls the pipeline for at most max_refresh
\* titles, these are stale titles, and no stale title is regenerated in a run
\* that leaves out a stale title with a newer release date.
C28_NewestStaleFirst ==
    LET Entered == {sw_entered[i] : i \in 1..Len(sw_entered)}
        Stale(t) == ~is_review_fresh(sw_db[t].age_hours, sw_db[t].days_since_release)
    IN sw_pc = "done" =>
        /\ Len(sw_entered) <= sw_max
        /\ \A t \in Entered : Stale(t)
        /\ \A t \in Entered, u \in Titles :
              (Stale(u) /\ sw_db[u].days_since_release < sw_db[t].days_since_release)
                  => u \in Entered

\* C29: within one read_urls batch, once a cache response has been detected as
\* rate-limited (the flag is set after the batch's reset), no GET to the
\* Google cache is started afterwards in that batch, in the all-cache branch
\* or for a single URL whose direct fetch failed.
C29_NoCacheLookupAfterRateLimit ==
    [][\A b \in Batches :
          (j_blocked /\ j_pc[b] \in {"direct", "cache"}) => j_cache'[b] = j_cache[b]]_vars

\* C30: within one read_urls batch at most max_concurrent fetches are in
\* flight at any moment, counting the fetches of non-Reddit URLs, the test
\* fetch, direct Reddit fetches and cache lookups together.
C30_AtMostMaxConcurrentInFlight ==
    \A b \in Batches : FetchesInFlight(b) <= MaxConcurrent

C30_Witness ==
    /\ j_pc[1] = "direct" /\ j_m[1] = MaxOthers
    /\ FetchesInFlight(1) = MaxConcurrent
    /\ \E u, v \in Remaining(1) : j_task[1][u] = "cache" /\ j_task[1][v] = "direct"
    /\ \E w \in Remaining(1) : j_task[1][w] = "waiting"

\* C31: the rate-limited flag belongs to one batch: while a batch in the
\* all-cache branch still has lookups to start, a step of another batch on the
\* singleton (its start, or a throttled answer to it) does not change the flag
\* that decides whether those lookups are skipped.
C31_FlagBelongsToOneBatch ==
    [][\A b \in Batches :
          (/\ j_pc[b] = "cache" /\ j_pc'[b] = "cache" /\ j_task'[b] = j_task[b]
           /\ \E u \in Remaining(b) : j_task[b][u] = "waiting")
              => j_blocked' = j_blocked]_vars

\* C32: with a fallback key configured, every search whose POST with the
\* primary key was answered 402/429 is retried with the fallback key, also a
\* search that was in flight when another search made the switch; none of
\* them returns an empty result without the retry.
C32_EveryExhaustedSearchRetried ==
    \A s \in Searches :
        (/\ sp_cfg /\ sp_search[s].sent = "primary"
         /\ sp_search[s].first \in {402, 429})
            => sp_search[s].retried

\* C33: the primary list returned by select_best_sources holds at most
\* max_total links, no link of a blocklisted domain, and no two links that are
\* equal once fragment and trailing slash are stripped.
C33_PrimaryBoundedAndDistinct ==
    LET primary == sl_out.primary
        Stripped(l) == [l EXCEPT !.tail = RStripSlash(SplitHash(l.tail))]
    IN sl_out.returned =>
        /\ Len(primary) <= sl_max
        /\ \A i \in 1..Len(primary) : ~IsBlocked(primary[i])
        /\ \A i, j \in 1..Len(primary) :
              i # j => Stripped(primary[i]) # Stripped(primary[j])

\* C34: with max_total = 12 the primary list holds, for each category with
\* quota q (critic 5, community 5, user-review site 2, other 3), at least
\* min(q, number of surviving links of that category) links of that category.
C34_QuotaPerCategory ==
    LET Count(seq, k) == Len(CategoryOf(seq, k))
        Min(a, b) == IF a < b THEN a ELSE b
        Quota(k) == CASE k = "critic" -> 5 [] k = "reddit" -> 5
                      [] k = "user_review" -> 2 [] k = "other" -> 3
    IN (sl_out.returned /\ sl_max = 12) =>
        \A k \in {"critic", "reddit", "user_review", "other"} :
            Count(sl_out.primary, k) >= Min(Quota(k), Count(sl_out.urls, k))

\* C35: the community snippet block placed first in the corpus reaches the
\* provider prompt in full, whatever the lengths of the community text and of
\* the critic text: neither the character budget of the pipeline nor the input
\* cap of synthesize_review cuts it.
C35_CommunityBlockSentInFull ==
    cp_pc \in {"cap", "sent"} => cp_corpus.community = cp_args.reddit_len

\* C36: every block of the opinion corpus is labeled with the domain of the
\* URL its text was fetched from, for every pattern of fetch failures and
\* every mix of Reddit and other URLs in the fetch list, backfill included.
C36_BlockLabelIsItsSource ==
    \A i \in 1..Len(lb_sections) : lb_sections[i].label = lb_sections[i].article

\* C37: the override score and the sample size the Verdict Policy Engine uses
\* come from the same source: both from the trusted per-title rating or both
\* from the metadata provider's rating.
C37_ScoreAndVotesFromOneSource ==
    (pc = "sanity" /\ OverrideBound(llm_output)) => score_source = votes_source

\* C38: a call wrapped by with_retry makes at most max_retries + 1 attempts,
\* returns with the first successful attempt and makes no attempt after it,
\* sleeps min(base_delay * 2^k, max_delay) after failed attempt k (counted
\* from 0) before the next attempt, and raises RetryExhausted only when the
\* last of the max_retries + 1 attempts has failed with a listed exception.
C38_BoundedBackoff ==
    LET n == Len(rt_outcomes)
    IN /\ n <= rt_cfg.max_retries + 1
       /\ \A i \in 1..(n - 1) : rt_outcomes[i] = "listed"
       /\ rt_pc = "returned" <=> (n > 0 /\ rt_outcomes[n] = "ok")
       /\ Len(rt_delays) = (IF rt_pc \in {"call", "idle"} THEN n
                            ELSE IF rt_pc = "sleep" THEN n ELSE n - 1)
       /\ \A k \in 0..(Len(rt_delays) - 1) :
             rt_delays[k + 1] = (IF rt_cfg.base_delay * Pow2(k) < rt_cfg.max_delay
                                 THEN rt_cfg.base_delay * Pow2(k) ELSE rt_cfg.max_delay)
       /\ rt_pc = "exhausted" =>
             (n = rt_cfg.max_retries + 1 /\ rt_outcomes[n] = "listed")

C38_Witness ==
    /\ rt_pc = "exhausted"
    /\ rt_cfg.max_retries = MaxRetries
    /\ Len(rt_outcomes) = MaxRetries + 1
    /\ Len(rt_delays) = MaxRetries
    /\ rt_delays[MaxRetries] = rt_cfg.max_delay
    /\ rt_cfg.base_delay * Pow2(MaxRetries - 1) > rt_cfg.max_delay

\* C39: the graph-based agent always reaches END, and broaden_search runs at
\* most once per run, however little content is found.
C39_AgentReachesEnd ==
    /\ [](ag_broadened <= 1)
    /\ <>(ag_node = "END")

C39_Witness ==
    /\ ag_node = "END" /\ ag_broadened = 1
    /\ ag_state.search_attempts = 2
    /\ ag_state.articles < 3 /\ ag_state.filtered_opinions <= 500

\* C40: for every input string sanitize_text returns a string that neither
\* begins nor ends with a quote character, and applying it twice gives the
\* same string as applying it once.
C40_SanitizeStripsQuotesIdempotently ==
    /\ st_pc \in {"once", "twice"} =>
          (st_once = <<>> \/ (st_once[1] \notin QuoteChars
                              /\ st_once[Len(st_once)] \notin QuoteChars))
    /\ st_pc = "twice" => st_twice = st_once

====
